---- MODULE Spec2Model ----
(***************************************************************************)
(* Conversation orchestrator of the Telegram agent (OpenAIAgent), its tool *)
(* adapters and the part of the transport that starts turns.               *)
(*                                                                         *)
(* One get_response invocation ("turn") runs on a cooperative event loop.  *)
(* Its only suspension point is the awaited first LLM request; everything  *)
(* after the first response (tool execution, follow-up request, rendering) *)
(* is synchronous code.  Several turns may be awaiting their first         *)
(* response at once on the one shared agent.                               *)
(***************************************************************************)
EXTENDS Naturals, Integers, Sequences, FiniteSets, TLC

\* ------------------------------------------------------------------ bounds
MaxTurns == 4        \* invocations of a behaviour of the conversation scenario
MaxInFlight == 2     \* invocations awaiting their first LLM response at once
MaxOverlapTurns == 3 \* invocations of a behaviour of the overlap scenario
MaxDetailTurns == 1  \* invocations of a behaviour of the turn scenario
MaxTokens == 6       \* entries of the token list of an account-detail response
MaxDigits == 3       \* characters appended to a balance text's head
MaxNesting == 2      \* markdown constructs applied on top of each other
MaxMessages == 2     \* text messages of a behaviour of the message scenario
MaxFairTurns == 2    \* invocations of a behaviour of the termination scenario

\* ------------------------------------------------------- program constants
HISTORY_LIMIT == 10
None == "None"       \* Python None / JSON null
Absent == "<absent>" \* a key that the argument object does not have

TIMEOUT_REPLY == "Sorry, the request took too long to process. Please try again or ask a simpler question."
ERROR_REPLY == "Sorry, I encountered an error processing your request.\nPlease try again later or ask a different question."
FALLBACK_REPLY == "I couldn't process your request correctly."

\* ------------------------------------------------------------ message text
\* A text is named by a string; CharsOf gives its characters, which is what
\* the keyword test reads.  "U+1EE6"/"U+1EE7" are the capital and the small
\* letter u with hook above.
CharsOf(text) ==
    CASE text = "hi" -> <<"h", "i">>
      [] text = "rest" -> <<"r", "e", "s", "t">>
      [] text = "CLEAR" -> <<"C", "L", "E", "A", "R">>
      [] text = "Reset!" -> <<"R", "e", "s", "e", "t", "!">>
      [] text = "unclear" -> <<"u", "n", "c", "l", "e", "a", "r">>
      [] text = "H\\u1EE6Y" -> <<"H", "U+1EE6", "Y">>
      [] text = "summarize" -> <<"s", "u", "m", "m", "a", "r", "i", "z", "e">>

char_lower(c) ==
    CASE c = "C" -> "c" [] c = "L" -> "l" [] c = "E" -> "e" [] c = "A" -> "a"
      [] c = "R" -> "r" [] c = "H" -> "h" [] c = "Y" -> "y"
      [] c = "U+1EE6" -> "U+1EE7"
      [] OTHER -> c

str_lower(chars) == [i \in 1..Len(chars) |-> char_lower(chars[i])]

\* Python's `needle in haystack` on strings
str_contains(needle, haystack) ==
    \E i \in 1..(Len(haystack) + 1) :
        /\ i + Len(needle) - 1 <= Len(haystack)
        /\ SubSeq(haystack, i, i + Len(needle) - 1) = needle

KW_RESET == <<"r", "e", "s", "e", "t">>
KW_CLEAR == <<"c", "l", "e", "a", "r">>
KW_HUY == <<"h", "U+1EE7", "y">>

is_reset_request_cased(text) ==
    \/ str_contains(KW_RESET, CharsOf(text))
    \/ str_contains(KW_CLEAR, CharsOf(text))
    \/ str_contains(KW_HUY, CharsOf(text))

is_reset_request(text) ==
    \/ str_contains(KW_RESET, str_lower(CharsOf(text)))
    \/ str_contains(KW_CLEAR, str_lower(CharsOf(text)))
    \/ str_contains(KW_HUY, str_lower(CharsOf(text)))

\* ------------------------------------------------------------------- turns
\* An entry of conversation_history.  tool_calls holds the ids of the tool
\* calls of an assistant entry; `turn` is the invocation that appended the
\* entry (not a field of the program's dict, kept to tell entries apart).
Entry(role, content, tool_calls, tool_call_id, turn) ==
    [role |-> role, content |-> content, tool_calls |-> tool_calls,
     tool_call_id |-> tool_call_id, turn |-> turn]

UserEntry(text, t) == Entry("user", text, <<>>, 0, t)
SystemEntry == Entry("system", "system_prompt", <<>>, 0, 0)
ToolEntry(id, content, t) == Entry("tool", content, <<>>, id, t)

truncate_history(h) ==
    IF Len(h) > HISTORY_LIMIT
    THEN SubSeq(h, Len(h) - HISTORY_LIMIT + 1, Len(h))
    ELSE h

reset_history(h, text, t) ==
    IF is_reset_request(text) THEN <<UserEntry(text, t)>> ELSE h

\* conversation_history after the first statements of get_response
add_user_message(h, text, t) ==
    reset_history(truncate_history(Append(h, UserEntry(text, t))), text, t)

\* messages = [system prompt] + conversation_history
build_messages_latest_only(h) == <<SystemEntry, h[Len(h)]>>

build_messages(h) == <<SystemEntry>> \o h

\* ------------------------------------------------------------ tool results
\* What an adapter (or the orchestrator's own validation) hands back.
Payload(text) == [status |-> "success", text |-> text]
Failure(text) == [status |-> "error", text |-> text]
NoResult == [status |-> "none", text |-> ""]

\* json.dumps(result), as far as the conversation keeps it apart
json_dumps(result) == IF result.status = "success" THEN "{...}" ELSE "{\"error\": ...}"

\* The outbound HTTP request of an adapter; NoRequest when none is made.
NoRequest == [endpoint |-> "none", network |-> None, scheme |-> None, user_id |-> 0]
Request(endpoint, network, scheme, user_id) ==
    [endpoint |-> endpoint, network |-> network, scheme |-> scheme, user_id |-> user_id]

\* How a call of execute ends: it returns a result or an exception leaves it.
Returns(result, request) ==
    [kind |-> "return", result |-> result, exc |-> None, request |-> request]
Raises(exc, request) ==
    [kind |-> "raise", result |-> NoResult, exc |-> exc, request |-> request]

\* What the remote end does with a request:
\*   ok        2xx, JSON body of the documented shape
\*   empty     2xx, body {}
\*   nulls     2xx, JSON object whose documented keys hold null
\*   list      2xx, JSON body that is an array
\*   notjson   2xx, body that is not JSON
\*   status    non-2xx status
\*   transport connection failure
HttpOutcomes == {"ok", "empty", "nulls", "list", "notjson", "status", "transport"}
NETWORKS == {"mainnet", "testnet", "devnet"}

\* Python truthiness of a JSON value ("#n" is the number n)
truthy(v) == v \notin {None, "", "#0", "false"}

\* requests raises a RequestException for these (connection errors, HTTPError
\* of raise_for_status, JSONDecodeError of response.json())
request_exception(http) == http \in {"transport", "status", "notjson"}

\* ----------------------------------------------------------------- numbers
\* Python integers are unbounded and its floats are IEEE 754 doubles.  A
\* natural number is kept as a sequence of limbs to the base 10000, least
\* significant limb first, without leading zero limbs; zero is <<>>.
LIMB == 10000
TWO54 == <<1984, 948, 3985, 8014, 1>>     \* 2^54 = 18014398509481984
TWO67 == <<2928, 7641, 5896, 3952, 4757, 1>>   \* 2^67 = 2^54 * 2^13

RECURSIVE big_mul_carry(_, _, _)
big_mul_carry(x, m, carry) ==
    IF x = <<>>
    THEN IF carry = 0 THEN <<>>
         ELSE <<carry % LIMB>> \o big_mul_carry(<<>>, m, carry \div LIMB)
    ELSE LET v == x[1] * m + carry
         IN <<v % LIMB>> \o big_mul_carry(Tail(x), m, v \div LIMB)

big_mul(x, m) == big_mul_carry(x, m, 0)
big_add_small(x, a) == big_mul_carry(x, 1, a)

\* quotient and remainder of x by a small m
RECURSIVE big_divmod(_, _)
big_divmod(x, m) ==
    IF x = <<>> THEN [q |-> <<>>, r |-> 0]
    ELSE LET hi == big_divmod(Tail(x), m)
             v == hi.r * LIMB + x[1]
         IN [q |-> IF hi.q = <<>> /\ v \div m = 0 THEN <<>> ELSE <<v \div m>> \o hi.q,
             r |-> v % m]

RECURSIVE big_less(_, _)
big_less(x, y) ==
    IF Len(x) # Len(y) THEN Len(x) < Len(y)
    ELSE IF x = <<>> THEN FALSE
    ELSE LET n == Len(x)
         IN IF x[n] # y[n] THEN x[n] < y[n]
            ELSE big_less(SubSeq(x, 1, n - 1), SubSeq(y, 1, n - 1))

\* x divided k times by m, rounded down; sticky tells whether anything was cut
RECURSIVE big_div_times(_, _, _, _)
big_div_times(x, m, k, sticky) ==
    IF k = 0 THEN [n |-> x, sticky |-> sticky]
    ELSE LET d == big_divmod(x, m)
         IN big_div_times(d.q, m, k - 1, sticky \/ d.r # 0)

\* x * 2^k and x * 10^k, thirteen bits or four digits at a time
RECURSIVE big_shl(_, _)
big_shl(x, k) == IF k >= 13 THEN big_shl(big_mul(x, 8192), k - 13) ELSE big_mul(x, 2^k)

RECURSIVE big_mul_pow10(_, _)
big_mul_pow10(x, k) ==
    IF k >= 4 THEN big_mul_pow10(big_mul(x, 10000), k - 4) ELSE big_mul(x, 10^k)

\* x / 2^k and x / 10^k rounded down, with the sticky flag
RECURSIVE big_shr(_, _, _)
big_shr(x, k, sticky) ==
    IF k >= 13
    THEN LET d == big_divmod(x, 8192) IN big_shr(d.q, k - 13, sticky \/ d.r # 0)
    ELSE big_div_times(x, 2^k, 1, sticky)

RECURSIVE big_div_pow10(_, _, _)
big_div_pow10(x, k, sticky) ==
    IF k >= 4
    THEN LET d == big_divmod(x, 10000) IN big_div_pow10(d.q, k - 4, sticky \/ d.r # 0)
    ELSE big_div_times(x, 10^k, 1, sticky)

\* x halved until it is below 2^54; h counts the halvings
RECURSIVE halve_to_54(_, _, _)
halve_to_54(x, h, sticky) ==
    IF big_less(x, TWO54) THEN [n |-> x, h |-> h, sticky |-> sticky]
    ELSE IF big_less(x, TWO67)
    THEN LET d == big_divmod(x, 2)
         IN halve_to_54(d.q, h + 1, sticky \/ d.r # 0)
    ELSE LET d == big_divmod(x, 8192)
         IN halve_to_54(d.q, h + 13, sticky \/ d.r # 0)

\* x2 is twice a value, rounded down, sticky what was cut off: the value
\* rounded to the nearest integer, ties to even
round_half_even(x2, sticky) ==
    LET d == big_divmod(x2, 2)
        odd == d.q # <<>> /\ d.q[1] % 2 = 1
    IN IF d.r = 1 /\ (sticky \/ odd) THEN big_add_small(d.q, 1) ELSE d.q

\* raw_balance / (10 ** decimals) for raw_balance > 0: int / int gives the
\* double nearest to the quotient, m / 2^e with a 53-bit m
true_divide(n, decimals) ==
    LET shift == 54 + 4 * decimals
        y == big_div_pow10(big_shl(n, shift), decimals, FALSE)
        t == halve_to_54(y.n, 0, y.sticky)
    IN [m |-> round_half_even(t.n, t.sticky), e |-> shift - t.h - 1]

\* the ".6f" of the format: the double times 10^6, rounded to the nearest
\* integer by its exact binary value, ties to even
fixed6(v) ==
    LET z == big_mul_pow10(v.m, 6)
    IN IF v.e <= 0 THEN big_shl(z, 0 - v.e)
       ELSE LET t == big_shr(z, v.e - 1, FALSE)
            IN round_half_even(t.n, t.sticky)

DIGITS == <<"0", "1", "2", "3", "4", "5", "6", "7", "8", "9">>
is_digit(c) == \E i \in 1..10 : DIGITS[i] = c
digit_value(c) == (CHOOSE i \in 1..10 : DIGITS[i] = c) - 1
limb_chars(l) ==
    <<DIGITS[(l \div 1000) + 1], DIGITS[((l \div 100) % 10) + 1],
      DIGITS[((l \div 10) % 10) + 1], DIGITS[(l % 10) + 1]>>

RECURSIVE big_chars(_)
big_chars(x) == IF x = <<>> THEN <<>> ELSE big_chars(Tail(x)) \o limb_chars(x[1])

RECURSIVE strip_zeros(_)
strip_zeros(cs) == IF Len(cs) > 1 /\ cs[1] = "0" THEN strip_zeros(Tail(cs)) ELSE cs

\* str(n)
str_of_big(x) == IF x = <<>> THEN <<"0">> ELSE strip_zeros(big_chars(x))

RECURSIVE zero_fill(_, _)
zero_fill(cs, width) == IF Len(cs) >= width THEN cs ELSE zero_fill(<<"0">> \o cs, width)

\* the "," of the format
RECURSIVE group_thousands(_)
group_thousands(cs) ==
    IF Len(cs) <= 3 THEN cs
    ELSE group_thousands(SubSeq(cs, 1, Len(cs) - 3)) \o <<",">> \o SubSeq(cs, Len(cs) - 2, Len(cs))

\* f"{formatted:,.6f}" of the value s / 10^6
format_fixed6(negative, s) ==
    LET ds == zero_fill(str_of_big(s), 7)
        n == Len(ds)
    IN (IF negative THEN <<"-">> ELSE <<>>)
       \o group_thousands(SubSeq(ds, 1, n - 6)) \o <<".">> \o SubSeq(ds, n - 5, n)

RECURSIVE big_of_digits(_, _)
big_of_digits(cs, acc) ==
    IF cs = <<>> THEN acc
    ELSE big_of_digits(Tail(cs), big_add_small(big_mul(acc, 10), digit_value(cs[1])))

\* int(balance) of a str: an optional sign and decimal digits, ValueError
\* otherwise (the blanks and underscores int also takes are not modelled)
int_of_str(cs) ==
    LET signed == cs # <<>> /\ cs[1] \in {"-", "+"}
        body == IF signed THEN Tail(cs) ELSE cs
    IN IF body = <<>> \/ \E i \in 1..Len(body) : ~is_digit(body[i])
       THEN [ok |-> FALSE, negative |-> FALSE, n |-> <<>>]
       ELSE [ok |-> TRUE, negative |-> signed /\ cs[1] = "-", n |-> big_of_digits(body, <<>>)]

\* GetAccountDetailTool.format_balance(balance, decimals) for a str balance
\* and an int decimals >= 0; texts are sequences of characters
format_balance(balance, decimals) ==
    LET raw_balance == int_of_str(balance)
    IN IF ~raw_balance.ok THEN balance
       ELSE IF raw_balance.n = <<>> THEN format_fixed6(FALSE, <<>>)
       ELSE format_fixed6(raw_balance.negative, fixed6(true_divide(raw_balance.n, decimals)))

\* ------------------------------------------------------ MarkdownFormatter
\* The formatter character by character.  A text is a sequence of
\* characters; the patterns are those of the re.sub calls.
starts_with(text, i, pat) ==
    /\ i + Len(pat) - 1 <= Len(text)
    /\ \A m \in 1..Len(pat) : text[i + m - 1] = pat[m]

\* the least position of a non-empty set of positions
first_of(positions) == CHOOSE p \in positions : \A q \in positions : p <= q

\* where a non-greedy (.*?) begun at j ends: the first place at or after j
\* where `close` stands, 0 when there is none; without DOTALL the group
\* cannot cross a newline
find_close(text, j, close, dotall) ==
    LET ends == {p \in j..(Len(text) - Len(close) + 1) :
                    /\ starts_with(text, p, close)
                    /\ dotall \/ \A m \in j..(p - 1) : text[m] # "\n"}
    IN IF ends = {} THEN 0 ELSE first_of(ends)

\* re.sub(open (.*?) close, left \1 right, text) from position i on: the
\* scan copies the text up to the leftmost match and goes on behind it
RECURSIVE re_sub_pair(_, _, _, _, _, _, _)
re_sub_pair(text, i, open, close, left, right, dotall) ==
    LET matches == {p \in i..Len(text) :
                       /\ starts_with(text, p, open)
                       /\ find_close(text, p + Len(open), close, dotall) # 0}
    IN IF matches = {} THEN SubSeq(text, i, Len(text))
       ELSE LET p == first_of(matches)
                k == find_close(text, p + Len(open), close, dotall)
            IN SubSeq(text, i, p - 1)
               \o left \o SubSeq(text, p + Len(open), k - 1) \o right
               \o re_sub_pair(text, k + Len(close), open, close, left, right, dotall)

\* re.sub(r'\[(.*?)\]\((.*?)\)', ...): a1 \1 a2 \2 a3 when label_first,
\* a1 \2 a2 \1 a3 otherwise
link_label_end(text, p) ==
    IF text[p] = "[" THEN find_close(text, p + 1, <<"]", "(">>, FALSE) ELSE 0
link_url_end(text, p) ==
    IF link_label_end(text, p) # 0
    THEN find_close(text, link_label_end(text, p) + 2, <<")">>, FALSE) ELSE 0

RECURSIVE re_sub_link(_, _, _, _, _, _)
re_sub_link(text, i, a1, a2, a3, label_first) ==
    LET matches == {p \in i..Len(text) : link_url_end(text, p) # 0}
    IN IF matches = {} THEN SubSeq(text, i, Len(text))
       ELSE LET p == first_of(matches)
                k1 == link_label_end(text, p)
                k2 == link_url_end(text, p)
                label == SubSeq(text, p + 1, k1 - 1)
                url == SubSeq(text, k1 + 2, k2 - 1)
            IN SubSeq(text, i, p - 1)
               \o (IF label_first THEN a1 \o label \o a2 \o url \o a3
                                  ELSE a1 \o url \o a2 \o label \o a3)
               \o re_sub_link(text, k2 + 1, a1, a2, a3, label_first)

\* \s and \d over the characters of the model
is_space(c) == c \in {" ", "\n"}
at_line_start(text, i) == i = 1 \/ text[i - 1] = "\n"
\* the first place at or after i that holds no character of the class
run_end(text, i, space) ==
    first_of({p \in i..Len(text) :
                 ~(IF space THEN is_space(text[p]) ELSE is_digit(text[p]))}
             \cup {IF i > Len(text) THEN i ELSE Len(text) + 1})
\* where the line holding position i ends ($ under MULTILINE)
line_end(text, i) ==
    first_of({p \in i..Len(text) : text[p] = "\n"}
             \cup {IF i > Len(text) THEN i ELSE Len(text) + 1})

\* re.sub(r'^marker\s+(.*?)$', left \1 right, text, flags=re.MULTILINE);
\* \s+ is greedy and takes newlines too, the group is the rest of the line
RECURSIVE re_sub_line(_, _, _, _, _)
re_sub_line(text, i, marker, left, right) ==
    LET matches == {p \in i..Len(text) :
                       /\ at_line_start(text, p)
                       /\ starts_with(text, p, marker)
                       /\ run_end(text, p + Len(marker), TRUE) > p + Len(marker)}
    IN IF matches = {} THEN SubSeq(text, i, Len(text))
       ELSE LET p == first_of(matches)
                q == run_end(text, p + Len(marker), TRUE)
                e == line_end(text, q)
            IN SubSeq(text, i, p - 1)
               \o left \o SubSeq(text, q, e - 1) \o right
               \o re_sub_line(text, e, marker, left, right)

\* re.sub(r'^(\d+)\.\s+(.*?)$', r'\1. \2', text, flags=re.MULTILINE)
numbered_at(text, p) ==
    LET d == run_end(text, p, FALSE)
    IN /\ at_line_start(text, p) /\ d > p
       /\ d <= Len(text) /\ text[d] = "."
       /\ run_end(text, d + 1, TRUE) > d + 1

RECURSIVE re_sub_numbered(_, _)
re_sub_numbered(text, i) ==
    LET matches == {p \in i..Len(text) : numbered_at(text, p)}
    IN IF matches = {} THEN SubSeq(text, i, Len(text))
       ELSE LET p == first_of(matches)
                d == run_end(text, p, FALSE)
                q == run_end(text, d + 1, TRUE)
                e == line_end(text, q)
            IN SubSeq(text, i, p - 1)
               \o SubSeq(text, p, d - 1) \o <<".", " ">> \o SubSeq(text, q, e - 1)
               \o re_sub_numbered(text, e)

\* html.escape(s) with quote=True
escape_char(c) ==
    CASE c = "&" -> <<"&", "a", "m", "p", ";">>
      [] c = "<" -> <<"&", "l", "t", ";">>
      [] c = ">" -> <<"&", "g", "t", ";">>
      [] c = "\"" -> <<"&", "q", "u", "o", "t", ";">>
      [] c = "'" -> <<"&", "#", "x", "2", "7", ";">>
      [] OTHER -> <<c>>

html_unescaped(text) == text

RECURSIVE html_escape(_)
html_escape(text) ==
    IF text = <<>> THEN <<>>
    ELSE IF Len(text) = 1 THEN escape_char(text[1])
    ELSE LET half == Len(text) \div 2
         IN html_escape(SubSeq(text, 1, half)) \o html_escape(SubSeq(text, half + 1, Len(text)))

\* the values the formatter may be handed: a str or something else (None)
Str(chars) == [type |-> "str", chars |-> chars]
NoneValue == [type |-> "NoneType", chars |-> <<>>]
\* html.escape and re.sub raise on a value that is not a str
raises_on(value) == value.type # "str"

STAR == <<"*">>
STARS == <<"*", "*">>
UNDERSCORE == <<"_">>
\* the backtick character is written "\\x60"
BACKTICK == <<"\\x60">>
FENCE == BACKTICK \o BACKTICK \o BACKTICK
\* the replacement of the bullet rule as the file spells it, and a blank
BULLET == <<"\\u00E2", "\\u20AC", "\\u00A2", " ">>

\* the try body of markdown_to_plaintext
plaintext_body(text) ==
    LET t1 == re_sub_pair(text, 1, STARS, STARS, <<>>, <<>>, FALSE)
        t2 == re_sub_pair(t1, 1, STAR, STAR, <<>>, <<>>, FALSE)
        t3 == re_sub_pair(t2, 1, UNDERSCORE, UNDERSCORE, <<>>, <<>>, FALSE)
        t4 == re_sub_pair(t3, 1, FENCE, FENCE, <<>>, <<>>, TRUE)
        t5 == re_sub_pair(t4, 1, BACKTICK, BACKTICK, <<>>, <<>>, FALSE)
    IN re_sub_link(t5, 1, <<>>, <<" ", "(">>, <<")">>, TRUE)

\* MarkdownFormatter.markdown_to_plaintext(text): [raised, value]
plaintext_unguarded(value) ==
    IF raises_on(value) THEN [raised |-> TRUE, value |-> value]
    ELSE [raised |-> FALSE, value |-> Str(plaintext_body(value.chars))]

MarkdownFormatter_markdown_to_plaintext(value) ==
    IF raises_on(value) THEN [raised |-> FALSE, value |-> value]
    ELSE [raised |-> FALSE, value |-> Str(plaintext_body(value.chars))]

TAG(name) == <<"<">> \o name \o <<">">>
END_TAG(name) == <<"<", "/">> \o name \o <<">">>
A_HREF == <<"<", "a", " ", "h", "r", "e", "f", "=", "\"">>

\* the rules of markdown_to_html after the escaping
html_rules(escaped) ==
    LET h2 == re_sub_line(escaped, 1, <<"#", "#">>, TAG(<<"b">>), END_TAG(<<"b">>))
        h1 == re_sub_line(h2, 1, <<"#">>, TAG(<<"b">>) \o TAG(<<"u">>),
                          END_TAG(<<"u">>) \o END_TAG(<<"b">>))
        t1 == re_sub_pair(h1, 1, STARS, STARS, TAG(<<"b">>), END_TAG(<<"b">>), FALSE)
        t2 == re_sub_pair(t1, 1, STAR, STAR, TAG(<<"b">>), END_TAG(<<"b">>), FALSE)
        t3 == re_sub_pair(t2, 1, UNDERSCORE, UNDERSCORE, TAG(<<"i">>), END_TAG(<<"i">>), FALSE)
        t4 == re_sub_pair(t3, 1, FENCE, FENCE, TAG(<<"p", "r", "e">>),
                          END_TAG(<<"p", "r", "e">>), TRUE)
        t5 == re_sub_pair(t4, 1, BACKTICK, BACKTICK, TAG(<<"c", "o", "d", "e">>),
                          END_TAG(<<"c", "o", "d", "e">>), FALSE)
        t6 == re_sub_link(t5, 1, A_HREF, <<"\"", ">">>, END_TAG(<<"a">>), FALSE)
        t7 == re_sub_line(t6, 1, <<"-">>, BULLET, <<>>)
    IN re_sub_numbered(t7, 1)

\* the try body of markdown_to_html
html_body(text) == html_rules(html_escape(text))

\* MarkdownFormatter.markdown_to_html(text): [raised, value, ok]
MarkdownFormatter_markdown_to_html(value) ==
    IF raises_on(value)
    THEN LET plain == MarkdownFormatter_markdown_to_plaintext(value)
         IN [raised |-> plain.raised, value |-> plain.value, ok |-> FALSE]
    ELSE [raised |-> FALSE, value |-> Str(html_body(value.chars)), ok |-> TRUE]

\* ---------------------------------------------------------------- adapters
TokenPriceTool_execute(token, http) ==
    IF token = None
    THEN Raises("AttributeError", NoRequest)            \* None.lower()
    ELSE LET req == Request("/api/token/price", None, None, 0) IN
         IF request_exception(http)
         THEN Returns(Failure("Error fetching price information: <e>"), req)
         ELSE IF http = "list"
         THEN Raises("AttributeError", req)             \* list.get
         ELSE IF http \in {"empty", "nulls"}
         THEN Returns(Failure("No price information found for token"), req)
         ELSE Returns(Payload("token_info"), req)

CreateAccountTool_execute(network, scheme, user_id, http) ==
    IF ~truthy(network)
    THEN Returns(Failure("Network parameter is required. Please specify 'mainnet', 'testnet', or 'devnet'."), NoRequest)
    ELSE IF network \notin NETWORKS
    THEN Returns(Failure("Invalid network. Please choose 'mainnet', 'testnet', or 'devnet'."), NoRequest)
    ELSE LET req == Request("/api/sui/account", network, scheme, user_id) IN
         IF request_exception(http)
         THEN Returns(Failure("Failed to create wallet account: <e>"), req)
         ELSE IF http = "list" THEN Raises("TypeError", req)   \* result['status']
         ELSE IF http = "empty" THEN Raises("KeyError", req)   \* result['status']
         ELSE Returns(Payload("account"), req)

CreateTokenTool_execute(wallet_address, network, http) ==
    LET req == Request("/api/sui/token", network, None, 0) IN
    IF request_exception(http)
    THEN Returns(Failure("Failed to create token on <network>: <e>"), req)
    ELSE Returns(Payload("token"), req)

GetAccountTool_execute(user_id, privatekey, network, http) ==
    IF truthy(network) /\ network \notin NETWORKS
    THEN Returns(Failure("Invalid network. Please choose 'mainnet', 'testnet', or 'devnet'."), NoRequest)
    ELSE LET req == Request("/api/sui/account/by-user", network, None, user_id) IN
         IF request_exception(http)
         THEN Returns(Failure("Failed to get account: <e>"), req)
         ELSE Returns(Payload("account"), req)

GetAccountDetailTool_execute(address, network, http) ==
    IF truthy(network) /\ network \notin NETWORKS
    THEN Returns(Failure("Invalid network. Please choose 'mainnet', 'testnet', or 'devnet'."), NoRequest)
    ELSE LET req == Request("/api/sui/account/{address}", network, None, 0) IN
         IF request_exception(http)
         THEN Returns(Failure("Failed to get account detail: <e>"), req)
         ELSE IF http = "nulls" THEN Raises("TypeError", req)  \* "balance" in None
         ELSE Returns(Payload("account_detail"), req)

\* An entry of data["tokens"] of the account-detail response; Absent marks a
\* key the entry does not have.
Token(symbol, balance, decimals) ==
    [symbol |-> symbol, balance |-> balance, decimals |-> decimals,
     formatted_balance |-> Absent]

\* what format_balance gives for a token entry, by name: the loop over the
\* tokens only places the text
formatted_balance_label(balance, decimals) == balance \o "/10^" \o decimals \o ":,.6f"

\* the loop over data["tokens"]: every entry that has balance and decimals
\* gets formatted_balance; the list itself is left as received
format_token_balances(tokens) ==
    [i \in 1..Len(tokens) |->
        IF tokens[i].balance # Absent /\ tokens[i].decimals # Absent
        THEN [tokens[i] EXCEPT !.formatted_balance =
                  formatted_balance_label(tokens[i].balance, tokens[i].decimals) \o " " \o tokens[i].symbol]
        ELSE tokens[i]]

WebSearchTool_execute(query, count, http) ==
    LET req == Request("brave/web/search", None, None, 0) IN
    IF request_exception(http)
    THEN Returns(Failure("Error searching the web: <e>"), req)
    ELSE IF http = "nulls" THEN Raises("TypeError", req)       \* "results" in None
    ELSE IF http \in {"empty", "list"}
    THEN Returns(Payload("Web Search Results:\n\nNo results found."), req)
    ELSE Returns(Payload("Web Search Results:\n\n1. ..."), req)

\* ------------------------------------------------- tool calls of the model
\* function.arguments of a tool call: a JSON text.  json |-> "invalid" is text
\* that json.loads rejects, "array" a JSON array, "object" a JSON object with
\* the members obj.
Arguments(json, obj) == [json |-> json, obj |-> obj]
ToolCall(id, name, arguments) == [id |-> id, name |-> name, arguments |-> arguments]

\* dict.get(key, default)
dict_get(d, k, default) == IF k \in DOMAIN d THEN d[k] ELSE default

\* ', '.join(list)
RECURSIVE join(_)
join(list) ==
    IF Len(list) = 0 THEN ""
    ELSE IF Len(list) = 1 THEN list[1]
    ELSE list[1] \o ", " \o join(Tail(list))

\* How the dispatch of a tool call ends:
\*   followup  a tool result exists and goes to the follow-up LLM request
\*   raise     an exception leaves the dispatch
\*   fallback  no branch matches the tool name
\* executed is the adapter whose execute ran ("none" when none ran), request
\* its HTTP request, short the get_account_detail paths that return early.
Dispatched(kind, result, exc, executed, request, short) ==
    [kind |-> kind, result |-> result, exc |-> exc, executed |-> executed,
     request |-> request, short |-> short]

Validated(result, short) == Dispatched("followup", result, None, "none", NoRequest, short)
Executed(adapter, out) ==
    IF out.kind = "raise"
    THEN Dispatched("raise", NoResult, out.exc, adapter, out.request, FALSE)
    ELSE Dispatched("followup", out.result, None, adapter, out.request, FALSE)

CREATE_TOKEN_REQUIRED == <<"name", "symbol", "init_supply", "wallet_address", "network">>

\* the locals of the create_token branch
create_token_locals(args) ==
    [name |-> dict_get(args, "name", None),
     symbol |-> dict_get(args, "symbol", None),
     init_supply |-> dict_get(args, "init_supply", None),
     wallet_address |-> dict_get(args, "wallet_address", ""),
     network |-> dict_get(args, "network", None)]

create_token_ready_no_wallet(args) ==
    LET v == create_token_locals(args) IN
    /\ truthy(v.name) /\ truthy(v.symbol) /\ v.init_supply # None /\ truthy(v.network)

create_token_ready(args) ==
    LET v == create_token_locals(args) IN
    /\ truthy(v.name) /\ truthy(v.symbol) /\ v.init_supply # None
    /\ truthy(v.wallet_address) /\ truthy(v.network)

create_token_missing(args) ==
    LET v == create_token_locals(args)
        lacks(f) == IF f = "init_supply" THEN v[f] = None ELSE ~truthy(v[f])
    IN SelectSeq(CREATE_TOKEN_REQUIRED, lacks)

dispatch_create_token(args, http) ==
    IF create_token_ready(args)
    THEN Executed("create_token",
                  CreateTokenTool_execute(create_token_locals(args).wallet_address,
                                          create_token_locals(args).network, http))
    ELSE Validated(Failure("Missing required parameters: " \o join(create_token_missing(args))), FALSE)

\* a create_account branch that takes the identifier from the arguments ("#99"
\* stands for the number 99) where the model supplied one
dispatch_create_account_model_id(args, user_id, http) ==
    LET scheme == dict_get(args, "scheme", "secp256k1")
        network == dict_get(args, "network", None)
        id == IF dict_get(args, "user_id", None) = "#99" THEN 99 ELSE user_id
    IN IF ~truthy(network)
       THEN Validated(Failure("Network parameter is required. Please specify 'mainnet', 'testnet', or 'devnet'."), FALSE)
       ELSE Executed("create_account", CreateAccountTool_execute(network, scheme, id, http))

dispatch_create_account(args, user_id, http) ==
    LET scheme == dict_get(args, "scheme", "secp256k1")
        network == dict_get(args, "network", None)
    IN IF ~truthy(network)
       THEN Validated(Failure("Network parameter is required. Please specify 'mainnet', 'testnet', or 'devnet'."), FALSE)
       ELSE Executed("create_account", CreateAccountTool_execute(network, scheme, user_id, http))

dispatch_get_account_by_user(args, user_id, http) ==
    LET network == dict_get(args, "network", None)
        privatekey == dict_get(args, "privatekey", None)
    IN IF ~truthy(network)
       THEN Validated(Failure("Vui long chon mang luoi de kiem tra (mainnet/testnet/devnet)."), FALSE)
       ELSE Executed("get_account", GetAccountTool_execute(user_id, privatekey, network, http))

SELECT_NETWORK_PROMPT == "Please select a network to check the balance:\n\n- Mainnet\n- Testnet\n- Devnet\n\nPlease choose one of the networks above!"
PROVIDE_ADDRESS_PROMPT == "Please provide a Sui wallet address to get account details."

dispatch_get_account_detail(args, http) ==
    LET address == dict_get(args, "address", None)
        network == dict_get(args, "network", None)
    IN IF ~truthy(network) THEN Validated(Failure(SELECT_NETWORK_PROMPT), TRUE)
       ELSE IF ~truthy(address) THEN Validated(Failure(PROVIDE_ADDRESS_PROMPT), TRUE)
       ELSE Executed("get_account_detail", GetAccountDetailTool_execute(address, network, http))

dispatch_search_web(args, http) ==
    Executed("search_web",
             WebSearchTool_execute(dict_get(args, "query", None), dict_get(args, "count", "#3"), http))

dispatch_get_token_price(args, http) ==
    Executed("get_token_price", TokenPriceTool_execute(dict_get(args, "token", None), http))

\* the names the if/elif chain of get_response compares function_name with
DISPATCH_NAMES == {"search_web", "get_token_price", "create_token", "create_account",
                   "get_account_by_user", "get_account_detail"}

\* the names of the schemas in the `tools` list of the first request, in
\* the order of the list
ADVERTISED_NAMES == {"search_web", "get_token_price", "create_token", "create_account",
                     "get_account", "get_account_detail"}

\* json.loads(tool_call.function.arguments) and the if/elif chain
dispatch(tool_call, user_id, http) ==
    LET a == tool_call.arguments
        name == tool_call.name
    IN IF a.json = "invalid"
       THEN Dispatched("raise", NoResult, "JSONDecodeError", "none", NoRequest, FALSE)
       ELSE IF name \notin DISPATCH_NAMES
       THEN Dispatched("fallback", NoResult, None, "none", NoRequest, FALSE)
       ELSE IF a.json = "array"                          \* list has no .get
       THEN Dispatched("raise", NoResult, "AttributeError", "none", NoRequest, FALSE)
       ELSE CASE name = "search_web" -> dispatch_search_web(a.obj, http)
              [] name = "get_token_price" -> dispatch_get_token_price(a.obj, http)
              [] name = "create_token" -> dispatch_create_token(a.obj, http)
              [] name = "create_account" -> dispatch_create_account(a.obj, user_id, http)
              [] name = "get_account_by_user" -> dispatch_get_account_by_user(a.obj, user_id, http)
              [] name = "get_account_detail" -> dispatch_get_account_detail(a.obj, http)

\* ------------------------------------------------------------- environment
\* Three scenarios share the actions below.
\*   conversation  MaxTurns turns, one after the other, a few kinds of LLM
\*                 response
\*   overlap       MaxOverlapTurns turns, up to MaxInFlight of them awaiting
\*                 their first LLM response at once
\*   turn          MaxDetailTurns turns, one after the other; the LLM may
\*                 produce every tool call of CallShapes and the remote ends
\*                 every outcome of HttpOutcomes
\* Two more run without chat messages:
\*   news          one press of the news button; its handler calls
\*                 get_response itself
\*   adapter       adapters called on their own
Strip(r) == [k \in {f \in DOMAIN r : r[f] # Absent} |-> r[k]]
Object(r) == Arguments("object", Strip(r))
EmptyObject == Object([unused |-> Absent])
Shape(name, arguments) == [name |-> name, arguments |-> arguments]

SearchWebShapes ==
    {Shape("search_web", Object([query |-> q, count |-> c])) :
        q \in {Absent, "sui"}, c \in {Absent, "#5"}}
TokenPriceShapes ==
    {Shape("get_token_price", Object([token |-> k])) : k \in {Absent, None, "BTC"}}
CreateTokenShapes ==
    {Shape("create_token",
           Object([name |-> n, symbol |-> s, init_supply |-> i, wallet_address |-> w, network |-> nw])) :
        n \in {Absent, "Moon"}, s \in {Absent, None, "MOON"}, i \in {Absent, "#0", "#1000"},
        w \in {Absent, "", "0xabc"}, nw \in {Absent, "mainnet", "moon"}}
CreateAccountShapes ==
    {Shape("create_account", Object([scheme |-> sc, network |-> nw, user_id |-> u])) :
        sc \in {Absent, "ed25519", "rsa"}, nw \in {Absent, "", "devnet", "moon"},
        u \in {Absent, "#99"}}
GetAccountShapes ==
    {Shape("get_account_by_user", Object([network |-> nw, privatekey |-> pk, user_id |-> u])) :
        nw \in {Absent, "testnet", "moon"}, pk \in {Absent, "true"}, u \in {Absent, "#99"}}
GetAccountDetailShapes ==
    {Shape("get_account_detail", Object([address |-> a, network |-> nw])) :
        a \in {Absent, "0xabc"}, nw \in {Absent, "mainnet", "moon"}}
OtherShapes ==
    {Shape("get_account", Object([user_id |-> "#99"])),   \* the name GetAccountTool advertises
     Shape("get_news", EmptyObject),
     Shape("create_token", Arguments("invalid", Strip([unused |-> Absent]))),
     Shape("get_news", Arguments("invalid", Strip([unused |-> Absent]))),
     Shape("search_web", Arguments("array", Strip([unused |-> Absent]))),
     Shape("get_news", Arguments("array", Strip([unused |-> Absent])))}

CallShapes ==
    SearchWebShapes \cup TokenPriceShapes \cup CreateTokenShapes \cup CreateAccountShapes
    \cup GetAccountShapes \cup GetAccountDetailShapes \cup OtherShapes

PriceOfBTC == Shape("get_token_price", Object([token |-> "BTC"]))
PriceOfNothing == Shape("get_token_price", EmptyObject)
DetailNoNetwork == Shape("get_account_detail", Object([address |-> "0xabc"]))
AdvertisedGetAccount == Shape("get_account", Object([user_id |-> "#99"]))

\* message.content of an LLM response
ANSWER == "**answer**"

\* The first responses the LLM may give: [content, calls]
FirstResponses(sc) ==
    CASE sc = "conversation" ->
           {[content |-> ANSWER, calls |-> <<>>],
            [content |-> None, calls |-> <<PriceOfBTC>>],
            [content |-> None, calls |-> <<PriceOfNothing>>]}
      [] sc = "overlap" ->
           {[content |-> ANSWER, calls |-> <<>>],
            [content |-> None, calls |-> <<PriceOfBTC>>],
            [content |-> None, calls |-> <<PriceOfNothing>>]}
      [] sc = "news" ->
           {[content |-> ANSWER, calls |-> <<>>],
            [content |-> None, calls |-> <<PriceOfBTC>>]}
      [] sc = "adapter" -> {}
      [] sc = "message" ->
           {[content |-> c, calls |-> <<>>] : c \in {None, ANSWER}}
           \cup {[content |-> None, calls |-> <<PriceOfBTC>>]}
      [] sc = "termination" ->
           {[content |-> ANSWER, calls |-> <<>>],
            [content |-> None, calls |-> <<PriceOfBTC>>],
            [content |-> None, calls |-> <<DetailNoNetwork>>]}
      [] sc = "turn" ->
           {[content |-> c, calls |-> <<>>] : c \in {None, ANSWER}}
           \cup {[content |-> None, calls |-> <<c>>] : c \in CallShapes}
           \cup {[content |-> ANSWER, calls |-> <<AdvertisedGetAccount>>],
                 [content |-> None, calls |-> <<DetailNoNetwork, PriceOfBTC>>]}

FollowupContents(sc) == IF sc = "turn" THEN {None, ANSWER} ELSE {ANSWER}
HttpChoices(sc) == IF sc = "turn" THEN HttpOutcomes ELSE {"ok"}

\* The updates the transport may hand over: [user_id, text]; user_id 0 is None
Update(user_id, text) == [user_id |-> user_id, text |-> text]
Updates(sc) ==
    CASE sc = "conversation" ->
           {Update(1, "hi"), Update(1, "CLEAR"), Update(2, "Reset!"),
            Update(0, "unclear"), Update(1, "H\\u1EE6Y"), Update(2, "rest")}
      [] sc = "overlap" -> {Update(1, "hi"), Update(2, "CLEAR")}
      [] sc = "turn" -> {Update(1, "rest"), Update(0, "CLEAR")}
      [] sc = "message" -> {Update(1, "hi"), Update(0, "CLEAR")}
      [] sc = "termination" -> {Update(1, "hi"), Update(2, "hi")}
      [] OTHER -> {}

Quota(sc) ==
    CASE sc = "conversation" -> MaxTurns
      [] sc = "overlap" -> MaxOverlapTurns
      [] sc = "turn" -> MaxDetailTurns
      [] sc = "news" -> MaxTurns
      [] sc = "message" -> MaxMessages
      [] sc = "termination" -> MaxFairTurns
      [] sc = "adapter" -> 0

\* how many invocations may await their first LLM response at once
InFlightLimit(sc) == IF sc \in {"overlap", "termination"} THEN MaxInFlight ELSE 1

\* ------------------------------------------------------------ get_response
\* the two except clauses of get_response
is_asyncio_timeout_never(exc) == FALSE
is_asyncio_timeout_any(exc) == TRUE

\* isinstance(e, asyncio.TimeoutError): the openai client's own
\* APITimeoutError derives from APIConnectionError, not from TimeoutError
is_asyncio_timeout(exc) == exc = "asyncio.TimeoutError"

Reply(text, flag) == [text |-> text, flag |-> flag]
NoReply == Reply("<none>", FALSE)

except_clauses(exc) ==
    IF is_asyncio_timeout(exc) THEN Reply(TIMEOUT_REPLY, FALSE) ELSE Reply(ERROR_REPLY, FALSE)

\* MarkdownFormatter: html.escape(None) raises inside markdown_to_html, whose
\* handler calls markdown_to_plaintext, whose handler returns its argument.
markdown_to_plaintext(text) == IF text = None THEN None ELSE "plain(" \o text \o ")"
markdown_to_html(text) ==
    IF text = None THEN Reply(markdown_to_plaintext(text), FALSE)
    ELSE Reply("html(" \o text \o ")", TRUE)

\* `assistant_message.content or "I couldn't process your request correctly."`
fallback_answer_content_only(content) == content
fallback_answer(content) == IF truthy(content) THEN content ELSE FALLBACK_REPLY

\* an LLM request: the messages and whether the tool schemas go with it
LLMRequest(msgs, tools) == [messages |-> msgs, tools |-> tools]
NoLLMRequest == LLMRequest(<<>>, FALSE)

NoMessage == [content |-> None, tool_calls |-> <<>>]
NoToolCall == ToolCall(0, None, EmptyObject)
NoDispatch == Dispatched("none", NoResult, None, "none", NoRequest, FALSE)
NoUpdate == Update(0, "hi")

\* ids of the tool calls of the response to turn t (the LLM never repeats one)
CallId(t, i) == 2 * (t - 1) + i
WithIds(calls, t) ==
    [i \in 1..Len(calls) |-> ToolCall(CallId(t, i), calls[i].name, calls[i].arguments)]
Ids(tool_calls) == [i \in 1..Len(tool_calls) |-> tool_calls[i].id]

\* the assistant entry get_response saves after the first response
assistant_entry_without_content(message, t) ==
    Entry("assistant", None, Ids(message.tool_calls), 0, t)

assistant_entry(message, t) ==
    Entry("assistant",
          IF message.tool_calls = <<>> THEN message.content ELSE None,
          Ids(message.tool_calls), 0, t)

\* self.conversation_history.append(...) of the first response
save_assistant_response_after_question(h, message, t) ==
    LET own == {i \in 1..Len(h) : h[i].role = "user" /\ h[i].turn = t}
        at == IF own = {} THEN Len(h) ELSE CHOOSE i \in own : TRUE
    IN SubSeq(h, 1, at) \o <<assistant_entry(message, t)>> \o SubSeq(h, at + 1, Len(h))

save_assistant_response(h, message, t) == Append(h, assistant_entry(message, t))

\* tool_call = assistant_message.tool_calls[0]
last_tool_call(message) == message.tool_calls[Len(message.tool_calls)]

first_tool_call(message) == message.tool_calls[1]

\* messages + [assistant tool-call echo, tool result] of the follow-up request
followup_messages(msgs, tool_call, result, t) ==
    msgs \o <<Entry("assistant", None, <<tool_call.id>>, 0, t),
              ToolEntry(tool_call.id, json_dumps(result), t)>>

\* the tool entry get_response appends before the follow-up request
save_tool_result_unless_error(h, tool_call, result, t) ==
    IF result.status = "error" THEN h
    ELSE Append(h, ToolEntry(tool_call.id, json_dumps(result), t))

save_tool_result(h, tool_call, result, t) ==
    Append(h, ToolEntry(tool_call.id, json_dumps(result), t))

\* ------------------------------------------------ the news button's handler
MAX_RETRIES == 3
RETRY_DELAY == 5

\* get_response(f"Please summarize these SUI news articles ...") without user_id
NEWS_UPDATE == Update(0, "summarize")

RAW_ARTICLES == "Sorry, I couldn't summarize the news at this time. Here are the raw articles:\n\n<news_text>"
NO_NEWS == "Sorry, I couldn't fetch the latest news at this time."
NEWS_ERROR == "Sorry, I encountered an error while fetching the news."

\* What get_news() and the eval of its result give the handler:
\*   articles  a dict with a non-empty "data" list
\*   nodata    a dict whose "data" is empty
\*   raises    the call or the eval raises
NewsResults == {"articles", "nodata", "raises"}

\* A call of the Telegram API succeeds or raises
TelegramOutcomes == {"ok", "fail"}

\* `attempt == max_retries - 1`
is_last_attempt_never(attempt) == FALSE

is_last_attempt(attempt) == attempt = MAX_RETRIES - 1

\* processing_msg.delete(): a message can be deleted once
delete_succeeds(n, tg) == ~n.processing_deleted /\ tg = "ok"

\* is the text one of the two apologies get_response returns on failure
is_failure_reply(text) == text \in {TIMEOUT_REPLY, ERROR_REPLY}

\* the news handler and the adapter probe at rest
NoNews ==
    [pc |-> "idle", attempt |-> 0, calls |-> 0, failed |-> 0, llm_failures |-> 0,
     sleeps |-> <<>>, processing_deleted |-> FALSE, shown |-> <<>>]
NoProbe == [op |-> "none", network |-> None, http |-> None, tokens |-> <<>>,
            status |-> "none", result_tokens |-> <<>>]

\* the token entries a response may hold, and the lists of them
TokenKinds == {Token("USDC", "1500000", "6"), Token("CETUS", "42", Absent)}
TokenLists == UNION {[1..n -> TokenKinds] : n \in 0..MaxTokens}

\* the raw balances format_balance is given: a head followed by up to
\* MaxDigits characters; the heads reach the size of a u64 amount
BalanceHeads ==
    {<<>>, <<"-">>, <<"1", "2", "3", "4", "5", "6", "7", "8", "9", "0">>,
     <<"1", "8", "4", "4", "6", "7", "4", "4", "0", "7", "3", "7", "0", "9", "5", "5", "1">>}
BalanceChars == {"0", "1", "5", "."}
BalanceTails == UNION {[1..n -> BalanceChars] : n \in 0..MaxDigits}
Balances == {h \o t : h \in BalanceHeads, t \in BalanceTails}
\* decimals: 9 for SUI (the literal of execute), 6 and 0 for other tokens
Decimals == {0, 6, 9}

\* the texts the formatter is given: plain pieces, wrapped up to MaxNesting
\* times in the constructs the rules look for
MARKUP == <<"<", "b", ">", "&", "\"", "'">>
MarkdownAtoms == {<<"a">>, MARKUP, <<"\n">>}
Wrapped(t) ==
    {STARS \o t \o STARS, UNDERSCORE \o t \o UNDERSCORE,
     BACKTICK \o t \o BACKTICK, FENCE \o t \o FENCE,
     FENCE \o <<"\n">> \o t \o <<"\n">> \o FENCE,
     <<"#", " ">> \o t, <<"-", " ">> \o t, <<"1", ".", " ">> \o t,
     t \o <<"\n">>}
Link(label, url) == <<"[">> \o label \o <<"]", "(">> \o url \o <<")">>
RECURSIVE MarkdownTexts(_)
MarkdownTexts(depth) ==
    IF depth = 0 THEN MarkdownAtoms
    ELSE LET inner == MarkdownTexts(depth - 1)
         IN inner \cup UNION {Wrapped(t) : t \in inner}
                  \cup {Link(t, a) : t \in inner, a \in {<<"a">>, MARKUP}}
                  \cup {Link(a, t) : t \in inner, a \in {<<"a">>, MARKUP}}
\* what markdown_to_html may be handed: a str, or None
RenderArguments == {Str(t) : t \in MarkdownTexts(MaxNesting)} \cup {NoneValue}

VARIABLES
    conversation_history,  \* self.conversation_history of the one OpenAIAgent
    started,               \* number of get_response invocations begun so far
    pc,                    \* where each invocation stands
    call,                  \* (user_id, user_message) of each unfinished invocation
    request,               \* the first LLM request of each unfinished invocation
    frame,                 \* locals of the invocation in its synchronous part
    scenario,              \* which environment the behaviour runs in
    news,                  \* the transport handler at work (handle_callback_query,
                           \* handle_message in the message scenario)
    probe                  \* an adapter called on its own: input and result

vars == <<conversation_history, started, pc, call, request, frame, scenario, news, probe>>

Turns == 1..MaxTurns

NoFrame ==
    [turn |-> 0, assistant_message |-> NoMessage, tool_call |-> NoToolCall,
     http |-> None, outcome |-> NoDispatch, followup |-> NoLLMRequest,
     llm_calls |-> 0, ai_response |-> None, exc |-> None, ret |-> NoReply]

Start(sc) ==
    /\ conversation_history = <<>>
    /\ started = 0
    /\ pc = [t \in Turns |-> "idle"]
    /\ call = [t \in Turns |-> NoUpdate]
    /\ request = [t \in Turns |-> NoLLMRequest]
    /\ frame = NoFrame
    /\ scenario = sc
    /\ news = NoNews
    /\ probe = NoProbe

Init == Start("conversation")
InitTurn == Start("turn")
InitOverlap == Start("overlap")

Awaiting == {t \in Turns : pc[t] = "FirstCall"}

\* the event loop runs another coroutine only while no invocation is between
\* its first response and its return: that stretch of get_response has no
\* await
event_loop_is_always_free == TRUE
event_loop_is_free == frame.turn = 0

\* get_response from its first statement to the awaited first LLM request
get_response_begin(u) ==
    /\ event_loop_is_free
    /\ started < Quota(scenario)
    /\ Cardinality(Awaiting) < InFlightLimit(scenario)
    /\ LET t == started + 1
           h == add_user_message(conversation_history, u.text, t)
       IN /\ conversation_history' = h
          /\ started' = t
          /\ pc' = [pc EXCEPT ![t] = "FirstCall"]
          /\ call' = [call EXCEPT ![t] = u]
          /\ request' = [request EXCEPT ![t] = LLMRequest(build_messages(h), TRUE)]
    /\ UNCHANGED <<frame, scenario, probe>>

\* process_response of handle_message calls get_response
GetResponse(u) == get_response_begin(u) /\ UNCHANGED news

\* asyncio.wait_for gives up on the first request
FirstCallTimeout(t) ==
    /\ event_loop_is_free /\ pc[t] = "FirstCall"
    /\ frame' = [NoFrame EXCEPT !.turn = t, !.llm_calls = 1, !.exc = "asyncio.TimeoutError"]
    /\ pc' = [pc EXCEPT ![t] = "Except"]
    /\ UNCHANGED <<conversation_history, started, call, request, scenario, news, probe>>

\* the first request fails in the client
FirstCallError(t) ==
    /\ event_loop_is_free /\ pc[t] = "FirstCall"
    /\ frame' = [NoFrame EXCEPT !.turn = t, !.llm_calls = 1, !.exc = "openai.APIConnectionError"]
    /\ pc' = [pc EXCEPT ![t] = "Except"]
    /\ UNCHANGED <<conversation_history, started, call, request, scenario, news, probe>>

\* the first response arrives: save the assistant entry, look for tool calls
FirstCallResponse(t, r) ==
    /\ event_loop_is_free /\ pc[t] = "FirstCall"
    /\ LET message == [content |-> r.content, tool_calls |-> WithIds(r.calls, t)]
           tools == message.tool_calls # <<>>
       IN /\ conversation_history' = save_assistant_response(conversation_history, message, t)
          /\ frame' = [NoFrame EXCEPT !.turn = t, !.llm_calls = 1,
                          !.assistant_message = message,
                          !.tool_call = IF tools THEN first_tool_call(message) ELSE NoToolCall,
                          !.ai_response = IF tools THEN None ELSE message.content]
          /\ pc' = [pc EXCEPT ![t] = IF tools THEN "ToolDispatch" ELSE "Render"]
    /\ UNCHANGED <<started, call, request, scenario, news, probe>>

\* json.loads, the if/elif chain, the adapter, the tool entry and the start of
\* the follow-up request
ToolDispatch(t, http) ==
    /\ frame.turn = t /\ pc[t] = "ToolDispatch"
    /\ LET out == dispatch(frame.tool_call, call[t].user_id, http)
           seen == IF out.request = NoRequest THEN None ELSE http
       IN CASE out.kind = "raise" ->
                 /\ frame' = [frame EXCEPT !.outcome = out, !.http = seen, !.exc = out.exc]
                 /\ pc' = [pc EXCEPT ![t] = "Except"]
                 /\ UNCHANGED conversation_history
            [] out.kind = "fallback" ->
                 /\ frame' = [frame EXCEPT !.outcome = out, !.http = seen,
                                 !.ai_response = fallback_answer(frame.assistant_message.content)]
                 /\ pc' = [pc EXCEPT ![t] = "Render"]
                 /\ UNCHANGED conversation_history
            [] out.kind = "followup" ->
                 /\ conversation_history' =
                        save_tool_result(conversation_history, frame.tool_call, out.result, t)
                 /\ frame' = [frame EXCEPT !.outcome = out, !.http = seen, !.llm_calls = 2,
                                 !.followup = LLMRequest(
                                     followup_messages(request[t].messages, frame.tool_call, out.result, t),
                                     FALSE)]
                 /\ pc' = [pc EXCEPT ![t] = "ToolFollowup"]
    /\ UNCHANGED <<started, call, request, scenario, news, probe>>

\* the follow-up response arrives: its content is the answer
FollowupResponse(t, content) ==
    /\ frame.turn = t /\ pc[t] = "ToolFollowup"
    /\ conversation_history' = Append(conversation_history, Entry("assistant", content, <<>>, 0, t))
    /\ IF frame.outcome.short
       THEN /\ frame' = [frame EXCEPT !.ai_response = content, !.ret = Reply(content, FALSE)]
            /\ pc' = [pc EXCEPT ![t] = "Returned"]
       ELSE /\ frame' = [frame EXCEPT !.ai_response = content]
            /\ pc' = [pc EXCEPT ![t] = "Render"]
    /\ UNCHANGED <<started, call, request, scenario, news, probe>>

\* the synchronous client gives up on the follow-up request
FollowupTimeout(t) ==
    /\ frame.turn = t /\ pc[t] = "ToolFollowup"
    /\ frame' = [frame EXCEPT !.exc = "openai.APITimeoutError"]
    /\ pc' = [pc EXCEPT ![t] = "Except"]
    /\ UNCHANGED <<conversation_history, started, call, request, scenario, news, probe>>

\* the follow-up request fails in the client
FollowupError(t) ==
    /\ frame.turn = t /\ pc[t] = "ToolFollowup"
    /\ frame' = [frame EXCEPT !.exc = "openai.APIConnectionError"]
    /\ pc' = [pc EXCEPT ![t] = "Except"]
    /\ UNCHANGED <<conversation_history, started, call, request, scenario, news, probe>>

\* MarkdownFormatter.markdown_to_html(ai_response) and the return
Render(t) ==
    /\ frame.turn = t /\ pc[t] = "Render"
    /\ frame' = [frame EXCEPT !.ret = markdown_to_html(frame.ai_response)]
    /\ pc' = [pc EXCEPT ![t] = "Returned"]
    /\ UNCHANGED <<conversation_history, started, call, request, scenario, news, probe>>

\* except clauses that let the exception leave get_response
Except_reraise(t) ==
    /\ frame.turn = t /\ pc[t] = "Except"
    /\ frame' = NoFrame
    /\ pc' = [pc EXCEPT ![t] = "done"]
    /\ UNCHANGED <<conversation_history, started, call, request, scenario, news, probe>>

\* the except clauses and their return
Except(t) ==
    /\ frame.turn = t /\ pc[t] = "Except"
    /\ frame' = [frame EXCEPT !.ret = except_clauses(frame.exc)]
    /\ pc' = [pc EXCEPT ![t] = "Returned"]
    /\ UNCHANGED <<conversation_history, started, call, request, scenario, news, probe>>

\* the caller takes the returned pair; the invocation is over
get_response_return(t) ==
    /\ frame.turn = t /\ pc[t] = "Returned"
    /\ frame' = NoFrame
    /\ pc' = [pc EXCEPT ![t] = "done"]
    /\ call' = [call EXCEPT ![t] = NoUpdate]
    /\ request' = [request EXCEPT ![t] = NoLLMRequest]
    /\ UNCHANGED <<conversation_history, started, scenario, probe>>

\* process_response of handle_message sends the reply
Deliver(t) == get_response_return(t) /\ UNCHANGED news

Next ==
    \/ \E u \in Updates(scenario) : GetResponse(u)
    \/ \E t \in Turns : FirstCallTimeout(t)
    \/ \E t \in Turns : FirstCallError(t)
    \/ \E t \in Turns, r \in FirstResponses(scenario) : FirstCallResponse(t, r)
    \/ \E t \in Turns, http \in HttpChoices(scenario) : ToolDispatch(t, http)
    \/ \E t \in Turns, content \in FollowupContents(scenario) : FollowupResponse(t, content)
    \/ \E t \in Turns : FollowupTimeout(t)
    \/ \E t \in Turns : FollowupError(t)
    \/ \E t \in Turns : Render(t)
    \/ \E t \in Turns : Except(t)
    \/ \E t \in Turns : Deliver(t)

\* ------------------------------------------------ handle_callback_query
\* the button press up to the retry loop: processing message, get_news, eval
NewsPress(result, tg_delete, tg_reply) ==
    /\ scenario = "news" /\ news.pc = "idle"
    /\ CASE result = "articles" -> news' = [news EXCEPT !.pc = "attempt"]
         [] result = "raises" -> news' = [news EXCEPT !.pc = "outer_except"]
         [] result = "nodata" ->
              IF delete_succeeds(news, tg_delete) /\ tg_reply = "ok"
              THEN news' = [news EXCEPT !.pc = "done", !.processing_deleted = TRUE,
                                        !.shown = Append(@, NO_NEWS)]
              ELSE news' = [news EXCEPT !.pc = "outer_except",
                                        !.processing_deleted = @ \/ delete_succeeds(news, tg_delete)]
    /\ UNCHANGED <<conversation_history, started, pc, call, request, frame, scenario, probe>>

\* one attempt of the loop begins: await self.agent.get_response(...)
NewsCall ==
    /\ scenario = "news" /\ news.pc = "attempt"
    /\ get_response_begin(NEWS_UPDATE)
    /\ news' = [news EXCEPT !.pc = "awaiting", !.calls = @ + 1]

\* get_response has returned: delete the processing message, send the
\* response, break; an exception of either goes to the attempt's handler
NewsReturn(t, tg_delete, tg_reply) ==
    /\ scenario = "news" /\ news.pc = "awaiting"
    /\ get_response_return(t)
    /\ LET llm == IF is_failure_reply(frame.ret.text) THEN 1 ELSE 0 IN
       IF delete_succeeds(news, tg_delete) /\ tg_reply = "ok"
       THEN news' = [news EXCEPT !.pc = "done", !.processing_deleted = TRUE,
                                 !.llm_failures = @ + llm,
                                 !.shown = Append(@, frame.ret.text)]
       ELSE news' = [news EXCEPT !.processing_deleted = @ \/ delete_succeeds(news, tg_delete),
                                 !.llm_failures = @ + llm,
                                 !.failed = @ + 1,
                                 !.sleeps = IF is_last_attempt(news.attempt)
                                            THEN @ ELSE Append(@, RETRY_DELAY),
                                 !.pc = IF is_last_attempt(news.attempt)
                                        THEN "give_up" ELSE "sleeping"]

\* asyncio.sleep(retry_delay) is over: the next round of range(max_retries)
NewsSleep ==
    /\ scenario = "news" /\ news.pc = "sleeping"
    /\ news' = [news EXCEPT !.attempt = @ + 1,
                            !.pc = IF news.attempt + 1 < MAX_RETRIES THEN "attempt" ELSE "done"]
    /\ UNCHANGED <<conversation_history, started, pc, call, request, frame, scenario, probe>>

\* the handler of the last attempt: delete, then send the raw articles
NewsGiveUp(tg_delete, tg_reply) ==
    /\ scenario = "news" /\ news.pc = "give_up"
    /\ IF delete_succeeds(news, tg_delete) /\ tg_reply = "ok"
       THEN news' = [news EXCEPT !.pc = "done", !.processing_deleted = TRUE,
                                 !.shown = Append(@, RAW_ARTICLES)]
       ELSE news' = [news EXCEPT !.pc = "outer_except",
                                 !.processing_deleted = @ \/ delete_succeeds(news, tg_delete)]
    /\ UNCHANGED <<conversation_history, started, pc, call, request, frame, scenario, probe>>

\* the outer except clause: delete, then the apology; an exception here
\* leaves the handler
NewsOuterExcept(tg_delete, tg_reply) ==
    /\ scenario = "news" /\ news.pc = "outer_except"
    /\ IF delete_succeeds(news, tg_delete) /\ tg_reply = "ok"
       THEN news' = [news EXCEPT !.pc = "done", !.processing_deleted = TRUE,
                                 !.shown = Append(@, NEWS_ERROR)]
       ELSE news' = [news EXCEPT !.pc = "raised",
                                 !.processing_deleted = @ \/ delete_succeeds(news, tg_delete)]
    /\ UNCHANGED <<conversation_history, started, pc, call, request, frame, scenario, probe>>

NextNews ==
    \/ \E r \in NewsResults, d \in TelegramOutcomes, s \in TelegramOutcomes : NewsPress(r, d, s)
    \/ NewsCall
    \/ \E t \in Turns : FirstCallTimeout(t)
    \/ \E t \in Turns : FirstCallError(t)
    \/ \E t \in Turns, r \in FirstResponses(scenario) : FirstCallResponse(t, r)
    \/ \E t \in Turns, http \in HttpChoices(scenario) : ToolDispatch(t, http)
    \/ \E t \in Turns, content \in FollowupContents(scenario) : FollowupResponse(t, content)
    \/ \E t \in Turns : FollowupTimeout(t)
    \/ \E t \in Turns : FollowupError(t)
    \/ \E t \in Turns : Render(t)
    \/ \E t \in Turns : Except(t)
    \/ \E t \in Turns, d \in TelegramOutcomes, s \in TelegramOutcomes : NewsReturn(t, d, s)
    \/ NewsSleep
    \/ \E d \in TelegramOutcomes, s \in TelegramOutcomes : NewsGiveUp(d, s)
    \/ \E d \in TelegramOutcomes, s \in TelegramOutcomes : NewsOuterExcept(d, s)

InitNews == Start("news")

\* ------------------------------------------------- adapters on their own
\* GetAccountDetailTool.execute(address, network) against a response whose
\* data["tokens"] is `tokens`
ExecuteAccountDetail(network, http, tokens) ==
    /\ scenario = "adapter"
    /\ LET out == GetAccountDetailTool_execute("0xabc", network, http)
           ok == out.kind = "return" /\ out.result.status = "success" /\ http = "ok"
       IN probe' = [op |-> "get_account_detail", network |-> network,
                    http |-> IF out.request = NoRequest THEN None ELSE http,
                    tokens |-> IF ok THEN tokens ELSE <<>>,
                    status |-> IF out.kind = "raise" THEN out.exc ELSE out.result.status,
                    result_tokens |-> IF ok THEN format_token_balances(tokens) ELSE <<>>]
    /\ UNCHANGED <<conversation_history, started, pc, call, request, frame, scenario, news>>

\* only a body of the documented shape ("ok") has a token list
NextAdapter ==
    \E network \in {None, "mainnet", "moon"}, http \in HttpOutcomes :
        \E tokens \in (IF http = "ok" THEN TokenLists ELSE {<<>>}) :
            ExecuteAccountDetail(network, http, tokens)

InitAdapter == Start("adapter")

\* ------------------------------------------------------ format_balance
\* GetAccountDetailTool.format_balance(balance, decimals), called once on
\* the input the behaviour starts with
FormatBalance ==
    /\ scenario = "balance"
    /\ probe.op = "format_balance"
    /\ probe.status = "called"
    /\ probe' = [probe EXCEPT !.status = "returned",
                              !.result = format_balance(probe.balance, probe.decimals)]
    /\ UNCHANGED <<conversation_history, started, pc, call, request, frame, scenario, news>>

NextBalance == FormatBalance

InitBalance ==
    /\ conversation_history = <<>>
    /\ started = 0
    /\ pc = [t \in Turns |-> "idle"]
    /\ call = [t \in Turns |-> NoUpdate]
    /\ request = [t \in Turns |-> NoLLMRequest]
    /\ frame = NoFrame
    /\ scenario = "balance"
    /\ news = NoNews
    /\ \E balance \in Balances, decimals \in Decimals :
           probe = [op |-> "format_balance", status |-> "called",
                    balance |-> balance, decimals |-> decimals, result |-> <<>>]

Spec == Init /\ [][Next]_vars
SpecNews == InitNews /\ [][NextNews]_vars

\* ----------------------------------------- TelegramBot.handle_message
\* A send through the Telegram API is delivered ("ok"), is refused and raises
\* ("fail"), or is delivered while the call raises telegram.error.TimedOut
\* because the acknowledgement did not arrive in time ("timeout").
SendOutcomes == {"ok", "fail", "timeout"}
delivered(tg) == tg \in {"ok", "timeout"}
raises(tg) == tg # "ok"

\* the handler of one text message: events are what it did for that message
Chat(pc_, message, update, events) ==
    [pc |-> pc_, message |-> message, update |-> update, events |-> events]
NoChat == Chat("idle", 0, NoUpdate, <<>>)

\* reply_text(None): the Bot API refuses a message without text
sendable(text) == text # None

\* handle_message up to asyncio.create_task(process_response())
handle_message(u, tg_typing, tg_placeholder) ==
    /\ scenario = "message"
    /\ news.pc \in {"idle", "done", "raised"}
    /\ news.message < MaxMessages
    /\ news' = IF raises(tg_typing)
               THEN Chat("raised", news.message + 1, u, <<>>)
               ELSE Chat(IF raises(tg_placeholder) THEN "raised" ELSE "task",
                         news.message + 1, u,
                         IF delivered(tg_placeholder) THEN <<"placeholder">> ELSE <<>>)
    /\ UNCHANGED <<conversation_history, started, pc, call, request, frame,
                   scenario, probe>>

\* process_response: await self.agent.get_response(message_text, user_id=user_id)
process_response_call ==
    /\ scenario = "message" /\ news.pc = "task"
    /\ get_response_begin(news.update)
    /\ news' = [news EXCEPT !.pc = "awaiting", !.events = Append(@, "get_response")]

delete_event(tg, events) ==
    IF tg = "ok" /\ \A i \in 1..Len(events) : events[i] # "delete"
    THEN "delete" ELSE "delete_failed"

\* process_response from the return of get_response to its end: the delete
\* of the placeholder, the reply, and the except clause around both
process_response_reply(t, tg_delete, tg_reply, tg_delete2, tg_apology) ==
    /\ scenario = "message" /\ news.pc = "awaiting"
    /\ get_response_return(t)
    /\ LET reply == IF sendable(frame.ret.text) THEN tg_reply ELSE "fail"
           e1 == Append(news.events, delete_event(tg_delete, news.events))
           e2 == IF delivered(reply) THEN Append(e1, "answer") ELSE e1
           e3 == Append(e2, delete_event(tg_delete2, e2))
           e4 == IF delivered(tg_apology) THEN Append(e3, "apology") ELSE e3
       IN news' = IF ~raises(reply)
                  THEN [news EXCEPT !.pc = "done", !.events = e2]
                  ELSE [news EXCEPT !.pc = IF raises(tg_apology) THEN "raised" ELSE "done",
                                    !.events = e4]

NextMessage ==
    \/ \E u \in Updates(scenario), a \in TelegramOutcomes, p \in SendOutcomes :
          handle_message(u, a, p)
    \/ process_response_call
    \/ \E t \in Turns : FirstCallTimeout(t)
    \/ \E t \in Turns : FirstCallError(t)
    \/ \E t \in Turns, r \in FirstResponses(scenario) : FirstCallResponse(t, r)
    \/ \E t \in Turns, http \in HttpChoices(scenario) : ToolDispatch(t, http)
    \/ \E t \in Turns, content \in FollowupContents(scenario) : FollowupResponse(t, content)
    \/ \E t \in Turns : FollowupTimeout(t)
    \/ \E t \in Turns : FollowupError(t)
    \/ \E t \in Turns : Render(t)
    \/ \E t \in Turns : Except(t)
    \/ \E t \in Turns, d \in TelegramOutcomes, s \in SendOutcomes,
          d2 \in TelegramOutcomes, a \in SendOutcomes :
          process_response_reply(t, d, s, d2, a)

InitMessage ==
    /\ conversation_history = <<>>
    /\ started = 0
    /\ pc = [t \in Turns |-> "idle"]
    /\ call = [t \in Turns |-> NoUpdate]
    /\ request = [t \in Turns |-> NoLLMRequest]
    /\ frame = NoFrame
    /\ scenario = "message"
    /\ news = NoChat
    /\ probe = NoProbe

SpecMessage == InitMessage /\ [][NextMessage]_vars

\* --------------------------------------------------- the formatter alone
\* get_response's last step on ai_response = probe.text:
\* `formatted_response, is_html = MarkdownFormatter.markdown_to_html(ai_response)`
\* inside the try whose `except Exception` returns the error reply
RenderHtml ==
    /\ scenario = "render"
    /\ probe.op = "render" /\ probe.status = "called"
    /\ LET out == MarkdownFormatter_markdown_to_html(probe.text)
       IN probe' = [probe EXCEPT !.status = "returned", !.fn = "markdown_to_html",
                                 !.result = out.value, !.ok = out.ok, !.raised = out.raised,
                                 !.turn_reply = IF out.raised THEN ERROR_REPLY
                                                ELSE "formatted_response"]
    /\ UNCHANGED <<conversation_history, started, pc, call, request, frame, scenario, news>>

\* MarkdownFormatter.markdown_to_plaintext(probe.text)
RenderPlain ==
    /\ scenario = "render"
    /\ probe.op = "render" /\ probe.status = "called"
    /\ LET out == MarkdownFormatter_markdown_to_plaintext(probe.text)
       IN probe' = [probe EXCEPT !.status = "returned", !.fn = "markdown_to_plaintext",
                                 !.result = out.value, !.raised = out.raised, !.calls = 1]
    /\ UNCHANGED <<conversation_history, started, pc, call, request, frame, scenario, news>>

\* markdown_to_plaintext applied to its own result
RenderPlainAgain ==
    /\ scenario = "render"
    /\ probe.op = "render" /\ probe.status = "returned"
    /\ probe.fn = "markdown_to_plaintext" /\ probe.calls = 1 /\ ~probe.raised
    /\ LET out == MarkdownFormatter_markdown_to_plaintext(probe.result)
       IN probe' = [probe EXCEPT !.first = probe.result, !.result = out.value,
                                 !.raised = out.raised, !.calls = 2]
    /\ UNCHANGED <<conversation_history, started, pc, call, request, frame, scenario, news>>

NextRender == RenderHtml \/ RenderPlain \/ RenderPlainAgain

InitRender ==
    /\ conversation_history = <<>>
    /\ started = 0
    /\ pc = [t \in Turns |-> "idle"]
    /\ call = [t \in Turns |-> NoUpdate]
    /\ request = [t \in Turns |-> NoLLMRequest]
    /\ frame = NoFrame
    /\ scenario = "render"
    /\ news = NoNews
    /\ \E text \in RenderArguments :
           probe = [op |-> "render", status |-> "called", fn |-> "none", text |-> text,
                    result |-> NoneValue, first |-> NoneValue, ok |-> FALSE,
                    raised |-> FALSE, calls |-> 0, turn_reply |-> "none"]

SpecAdapter == InitAdapter /\ [][NextAdapter]_vars
SpecRender == InitRender /\ [][NextRender]_vars
SpecBalance == InitBalance /\ [][NextBalance]_vars
SpecTurn == InitTurn /\ [][Next]_vars
SpecOverlap == InitOverlap /\ [][Next]_vars

\* -------------------------------------------------- overlapping turns, fair
\* Every LLM call and every tool HTTP call eventually returns, fails or times
\* out: asyncio.wait_for ends the first call whenever the event loop is free
\* again (strong fairness: other invocations take the loop in between), and
\* the stretch after it is one synchronous run (weak fairness).
InitTermination == Start("termination")

FirstCallEnds(t) ==
    \/ FirstCallTimeout(t)
    \/ FirstCallError(t)
    \/ \E r \in FirstResponses(scenario) : FirstCallResponse(t, r)

FollowupEnds(t) ==
    \/ \E content \in FollowupContents(scenario) : FollowupResponse(t, content)
    \/ FollowupTimeout(t)
    \/ FollowupError(t)

Fairness ==
    \A t \in Turns :
        /\ SF_vars(FirstCallEnds(t))
        /\ WF_vars(\E http \in HttpChoices(scenario) : ToolDispatch(t, http))
        /\ WF_vars(FollowupEnds(t))
        /\ WF_vars(Render(t))
        /\ WF_vars(Except(t))
        /\ WF_vars(Deliver(t))

SpecTermination == InitTermination /\ [][Next]_vars /\ Fairness

\* ================================================================== claims
Running == frame.turn # 0
Positions(h) == 1..Len(h)

\* C1 (as claimed): conversation_history never holds more than 10 entries,
\* after any append of any turn.
HistoryNeverExceedsLimit == Len(conversation_history) <= HISTORY_LIMIT

\* C2 (as claimed): every tool entry's tool_call_id is the id of a tool call
\* of exactly one assistant entry that stands earlier in the history.
ToolEntriesHaveTheirCall ==
    \A i \in Positions(conversation_history) :
        conversation_history[i].role = "tool" =>
            Cardinality({j \in 1..(i - 1) :
                /\ conversation_history[j].role = "assistant"
                /\ \E k \in Positions(conversation_history[j].tool_calls) :
                       conversation_history[j].tool_calls[k] = conversation_history[i].tool_call_id}) = 1

\* C3: while a turn whose text contains "reset", "clear" or "huy" (in any
\* letter case, anywhere in the text) awaits its first LLM response, the
\* history is the single user entry of that text, and that entry is all the
\* first LLM request carries after the system prompt.
TextsWithResetKeyword == {"CLEAR", "Reset!", "unclear", "H\\u1EE6Y"}
ResetReseedsHistory ==
    \A t \in Turns :
        (pc[t] = "FirstCall" /\ call[t].text \in TextsWithResetKeyword) =>
            /\ conversation_history = <<UserEntry(call[t].text, t)>>
            /\ request[t].messages = <<SystemEntry, UserEntry(call[t].text, t)>>

\* C3 witness: the third turn of a conversation resets with an upper-case keyword.
ResetAfterEarlierTurns ==
    /\ pc[3] = "FirstCall" /\ call[3].text = "CLEAR"
    /\ conversation_history = <<UserEntry("CLEAR", 3)>>

\* C4: a turn whose first LLM request ran out of time returns the
\* "took too long" reply with flag false, never the generic error reply.
FirstCallTimeoutReply ==
    \A t \in Turns :
        (pc[t] = "Returned" /\ frame.exc = "asyncio.TimeoutError" /\ frame.llm_calls = 1) =>
            /\ frame.ret = Reply(TIMEOUT_REPLY, FALSE)
            /\ frame.ret.text # ERROR_REPLY

\* C4 witness: a turn has returned after its first request timed out.
FirstCallTimedOut ==
    /\ pc[1] = "Returned" /\ frame.exc = "asyncio.TimeoutError"
    /\ frame.ret.text = TIMEOUT_REPLY

\* C5 (as claimed): a turn whose follow-up LLM request ran out of time
\* returns the "took too long" reply with flag false.
FollowupTimeoutReply ==
    \A t \in Turns :
        (pc[t] = "Returned" /\ frame.exc = "openai.APITimeoutError") =>
            frame.ret = Reply(TIMEOUT_REPLY, FALSE)

\* C6: a turn that ends with an exception other than a timeout (a failed LLM
\* request, tool-call arguments that are not JSON, an exception that left an
\* adapter or the dispatch) returns the generic error reply with flag false.
TimeoutExceptions == {"asyncio.TimeoutError", "openai.APITimeoutError"}
OtherExceptionsGiveErrorReply ==
    \A t \in Turns :
        (pc[t] = "Returned" /\ frame.exc # None /\ frame.exc \notin TimeoutExceptions) =>
            frame.ret = Reply(ERROR_REPLY, FALSE)

\* C6 witness: a turn has returned after json.loads rejected the arguments.
MalformedArgumentsReturned ==
    /\ pc[1] = "Returned" /\ frame.exc = "JSONDecodeError"
    /\ frame.ret = Reply(ERROR_REPLY, FALSE)

\* C7: a create_token call that lacks a required field (the key is absent, or
\* holds null or an empty string; for init_supply: absent or null) never
\* reaches CreateTokenTool.execute or its HTTP request, and its tool result is
\* the error "Missing required parameters: " followed by exactly the lacking
\* fields, comma-joined, in the order name, symbol, init_supply,
\* wallet_address, network.
Lacking(obj, f) ==
    \/ f \notin DOMAIN obj
    \/ obj[f] = None
    \/ (f # "init_supply" /\ obj[f] = "")
LackingFields(obj) ==
    LET lacking(f) == Lacking(obj, f) IN
    SelectSeq(<<"name", "symbol", "init_supply", "wallet_address", "network">>, lacking)
IsCreateTokenCall ==
    /\ Running /\ frame.outcome.kind # "none"
    /\ frame.tool_call.name = "create_token"
    /\ frame.tool_call.arguments.json = "object"
CreateTokenMissingFields ==
    (IsCreateTokenCall /\ LackingFields(frame.tool_call.arguments.obj) # <<>>) =>
        /\ frame.outcome.executed = "none"
        /\ frame.outcome.request = NoRequest
        /\ frame.outcome.result =
               Failure("Missing required parameters: "
                       \o join(LackingFields(frame.tool_call.arguments.obj)))

\* C7 witness: a create_token call without name and wallet_address is answered.
CreateTokenWithoutWallet ==
    /\ IsCreateTokenCall
    /\ DOMAIN frame.tool_call.arguments.obj = {"symbol", "init_supply", "network"}
    /\ frame.tool_call.arguments.obj["symbol"] = "MOON"
    /\ frame.outcome.result.text = "Missing required parameters: name, wallet_address"

\* C8 (as claimed): a get_account_detail call without network, or with
\* network and without address, runs no adapter and makes no second LLM
\* request; the prompt-for-input result is what the caller gets.
IsShortDetailCall ==
    /\ Running /\ frame.outcome.kind # "none"
    /\ frame.tool_call.name = "get_account_detail"
    /\ frame.tool_call.arguments.json = "object"
    /\ \/ ~truthy(dict_get(frame.tool_call.arguments.obj, "network", None))
       \/ ~truthy(dict_get(frame.tool_call.arguments.obj, "address", None))
DetailShortCircuitsWithoutFollowup ==
    IsShortDetailCall =>
        /\ frame.outcome.executed = "none"
        /\ frame.llm_calls = 1
        /\ frame.followup = NoLLMRequest
        /\ \A t \in Turns : pc[t] = "Returned" => frame.ret.text = frame.outcome.result.text

\* C9: when the follow-up LLM request is made, the history holds exactly one
\* tool entry with the id of the first tool call of the response, that entry
\* is the newest one, and the follow-up request ends with the same tool
\* message; a follow-up request is never made without it.  This holds for
\* success and for error results.
ToolEntriesOf(id) ==
    {i \in Positions(conversation_history) :
        /\ conversation_history[i].role = "tool"
        /\ conversation_history[i].tool_call_id = id}
ToolResultSavedBeforeFollowup ==
    \A t \in Turns :
        /\ (frame.turn = t /\ frame.llm_calls = 2) =>
              /\ frame.outcome.kind = "followup"
              /\ frame.tool_call = frame.assistant_message.tool_calls[1]
              /\ Cardinality(ToolEntriesOf(frame.tool_call.id)) = 1
              /\ frame.followup.messages[Len(frame.followup.messages)].role = "tool"
              /\ frame.followup.messages[Len(frame.followup.messages)].tool_call_id = frame.tool_call.id
        /\ pc[t] = "ToolFollowup" =>
              /\ frame.turn = t /\ frame.llm_calls = 2
              /\ ToolEntriesOf(frame.tool_call.id) = {Len(conversation_history)}

\* C9 witness: the follow-up request goes out with an error result saved.
FollowupWithErrorResult ==
    /\ pc[1] = "ToolFollowup" /\ frame.outcome.result.status = "error"
    /\ frame.outcome.executed = "get_token_price"
    /\ conversation_history[Len(conversation_history)].tool_call_id = frame.tool_call.id

\* C10 (as claimed): no exception leaves an adapter's execute; a failure in
\* it becomes an error result and the turn goes on to the follow-up request.
AdaptersNeverRaise ==
    (Running /\ frame.outcome.executed # "none") =>
        /\ frame.outcome.kind = "followup"
        /\ frame.exc \notin {"AttributeError", "TypeError", "KeyError"}

\* C11: a turn makes one tool hop.  The tool call that is dispatched is the
\* first one of the response (a second one never gets a tool entry), the
\* adapter that ran, if any, is the one the first call names, the follow-up
\* request carries no tool schemas, and the turn makes at most two LLM
\* requests.
AdapterOf(name) == IF name = "get_account_by_user" THEN "get_account" ELSE name
FirstCallIds == {CallId(t, 1) : t \in Turns}
SingleToolHop ==
    /\ frame.llm_calls <= 2
    /\ \A i \in Positions(conversation_history) :
           conversation_history[i].role = "tool" =>
               conversation_history[i].tool_call_id \in FirstCallIds
    /\ (Running /\ frame.assistant_message.tool_calls # <<>>) =>
           /\ frame.tool_call = frame.assistant_message.tool_calls[1]
           /\ frame.outcome.executed \in {"none", AdapterOf(frame.assistant_message.tool_calls[1].name)}
    /\ frame.followup # NoLLMRequest =>
           /\ ~frame.followup.tools
           /\ frame.llm_calls = 2

\* C11 witness: the response carried two tool calls and the follow-up request
\* for the first one is out; the price adapter of the second never ran.
SecondToolCallIgnored ==
    /\ pc[1] = "ToolFollowup"
    /\ Len(frame.assistant_message.tool_calls) = 2
    /\ frame.assistant_message.tool_calls[2].name = "get_token_price"
    /\ frame.outcome.executed = "none"
    /\ frame.llm_calls = 2

\* C12: when the first response carries no tool call, the turn runs no
\* adapter and makes no second LLM request, the history gained exactly one
\* assistant entry of the turn, holding the response's text, and that text is
\* what the renderer is given.
IsDirectAnswer ==
    /\ Running /\ frame.exc = None /\ frame.assistant_message.tool_calls = <<>>
AssistantEntriesOf(t) ==
    {i \in Positions(conversation_history) :
        /\ conversation_history[i].role = "assistant"
        /\ conversation_history[i].turn = t}
DirectAnswerIsRendered ==
    IsDirectAnswer =>
        /\ frame.outcome = NoDispatch
        /\ frame.llm_calls = 1
        /\ frame.followup = NoLLMRequest
        /\ AssistantEntriesOf(frame.turn) = {Len(conversation_history)}
        /\ conversation_history[Len(conversation_history)].content = frame.assistant_message.content
        /\ conversation_history[Len(conversation_history)].tool_calls = <<>>
        /\ frame.ai_response = frame.assistant_message.content
        /\ pc[frame.turn] \in {"Render", "Returned"}
        /\ pc[frame.turn] = "Returned" => frame.ret = markdown_to_html(frame.assistant_message.content)

\* C12 witness: a direct answer has been rendered and returned.
DirectAnswerReturned ==
    /\ pc[1] = "Returned" /\ IsDirectAnswer
    /\ frame.assistant_message.content = ANSWER
    /\ frame.ret = Reply("html(**answer**)", TRUE)

\* C13 (as claimed): every turn that returns without an exception returns the
\* renderer's output for its final answer and the renderer's flag.
EveryAnswerIsRendered ==
    \A t \in Turns :
        (pc[t] = "Returned" /\ frame.exc = None) =>
            frame.ret = markdown_to_html(frame.ai_response)

\* C14: the history is shared by turns that overlap.  When a turn t2 began
\* while an earlier turn t1 was still awaiting its first LLM response (and
\* both user entries are still in the window), the assistant entry saved for
\* t1 comes after the user entry of t2: the user entry of t2 lies between the
\* user entry of t1 and the reply to it.
EntriesOf(h, role, t) == {i \in Positions(h) : h[i].role = role /\ h[i].turn = t}
Interleaved(h, t1, t2) ==
    \E i \in EntriesOf(h, "user", t1), k \in EntriesOf(h, "user", t2),
       j \in EntriesOf(h, "assistant", t1) : i < k /\ k < j
OverlappingTurnsInterleave ==
    [][\A t1, t2 \in Turns :
          (/\ t1 < t2 /\ pc[t1] = "FirstCall" /\ pc[t2] # "idle"
           /\ EntriesOf(conversation_history, "user", t1) # {}
           /\ EntriesOf(conversation_history, "user", t2) # {}
           /\ pc'[t1] \in {"Render", "ToolDispatch"})
          => Interleaved(conversation_history', t1, t2)]_vars

\* C14 witness: the user entry of turn 2 stands between the user entry of
\* turn 1 and the assistant reply of turn 1.
HistoryInterleaved ==
    /\ Len(conversation_history) >= 3
    /\ conversation_history[1] = UserEntry("hi", 1)
    /\ conversation_history[2].role = "user" /\ conversation_history[2].turn = 2
    /\ conversation_history[3].role = "assistant" /\ conversation_history[3].turn = 1

\* C15: the history belongs to the agent, not to a user.  The first LLM
\* request of a turn carries the whole window, whoever wrote its entries:
\* every user entry of another user that is still in the window is in the
\* request.  (In the conversation scenario a text tells its author.)
AuthorOf(text) ==
    CASE text \in {"hi", "CLEAR", "H\\u1EE6Y"} -> 1
      [] text \in {"Reset!", "rest"} -> 2
      [] OTHER -> 0
RequestCarriesOtherUsersTurns ==
    \A t \in Turns :
        pc[t] = "FirstCall" =>
            /\ request[t].messages = <<SystemEntry>> \o conversation_history
            /\ \A i \in Positions(conversation_history) :
                   (/\ conversation_history[i].role = "user"
                    /\ AuthorOf(conversation_history[i].content) # call[t].user_id)
                   => \E k \in Positions(request[t].messages) :
                          request[t].messages[k] = conversation_history[i]

\* C15 witness: the request of user 2's turn carries user 1's message and
\* the reply user 1 got.
RequestOfUserTwoCarriesUserOne ==
    /\ pc[2] = "FirstCall" /\ call[2] = Update(2, "rest")
    /\ request[2].messages[2] = UserEntry("hi", 1)
    /\ request[2].messages[3].role = "assistant" /\ request[2].messages[3].turn = 1
    /\ request[2].messages[4] = UserEntry("rest", 2)

\* C16: one press of the news button calls get_response at most 3 times.
\* Every failed attempt but the last is followed by one sleep of the same
\* fixed delay, the last by none; an attempt that succeeds ends the loop, so
\* the calls made are the failed attempts plus, at most, the one that
\* succeeded or is under way.
Min(a, b) == IF a < b THEN a ELSE b
NewsSummaryShown == news.pc = "done" /\ news.calls > news.failed
NewsRetryBounded ==
    /\ news.calls <= 3
    /\ news.calls = started
    /\ news.failed <= news.calls /\ news.calls <= news.failed + 1
    /\ Len(news.sleeps) = Min(news.failed, 2)
    /\ \A i \in 1..Len(news.sleeps) : news.sleeps[i] = 5
    /\ news.pc \in {"attempt", "sleeping"} => news.calls = news.failed /\ news.calls < 3
    /\ NewsSummaryShown => Len(news.shown) = 1

\* C16 witness: the third attempt has failed after two sleeps, and the
\* handler is done.
ThirdAttemptWasTheLast ==
    /\ news.pc = "done" /\ news.calls = 3 /\ news.failed = 3
    /\ news.sleeps = <<5, 5>>

\* C17 (as claimed): when the LLM summarization fails, the attempt counts as
\* failed and the next one follows; the user is never sent one of
\* get_response's apologies, and when the summarization failed on every
\* attempt the user is shown the raw article list.
FailedSummaryFallsBackToArticles ==
    /\ \A i \in 1..Len(news.shown) : ~is_failure_reply(news.shown[i])
    /\ news.llm_failures <= news.failed
    /\ (news.pc = "done" /\ news.calls > 0 /\ news.llm_failures = news.calls) =>
           news.shown = <<RAW_ARTICLES>>

\* C18 (as claimed): an adapter that takes a network argument and is called
\* with a network outside mainnet, testnet, devnet returns an error result
\* and sends no HTTP request.
AdaptersWithNetwork == {"create_account", "get_account", "get_account_detail", "create_token"}
NetworkArgument == dict_get(frame.tool_call.arguments.obj, "network", None)
InvalidNetworkIsRejected ==
    (/\ Running /\ frame.outcome.executed \in AdaptersWithNetwork
     /\ NetworkArgument \notin {"mainnet", "testnet", "devnet"}) =>
        /\ frame.outcome.request = NoRequest
        /\ frame.outcome.kind = "followup"
        /\ frame.outcome.result.status = "error"

\* C19 (as claimed): create_account called with a scheme outside secp256k1,
\* ed25519 returns an error result and sends no HTTP request.
SchemeArgument == dict_get(frame.tool_call.arguments.obj, "scheme", "secp256k1")
InvalidSchemeIsRejected ==
    (/\ Running /\ frame.outcome.executed = "create_account"
     /\ SchemeArgument \notin {"secp256k1", "ed25519"}) =>
        /\ frame.outcome.request = NoRequest
        /\ frame.outcome.kind = "followup"
        /\ frame.outcome.result.status = "error"

\* C20 (as claimed): the token list of an account-detail result holds at most
\* 5 entries: the first 5 of the list received, in the order received.
FirstFive(list) == SubSeq(list, 1, Min(Len(list), 5))
SameTokens(a, b) ==
    /\ Len(a) = Len(b)
    /\ \A i \in 1..Len(a) : a[i].symbol = b[i].symbol /\ a[i].balance = b[i].balance
TokenListIsCapped ==
    (probe.op = "get_account_detail" /\ probe.status = "success") =>
        /\ Len(probe.result_tokens) <= 5
        /\ SameTokens(probe.result_tokens, FirstFive(probe.tokens))

\* ---- C21
\* the integers nearest to n * 10^6 / 10^decimals (two of them at a tie)
NearestMillionths(n, decimals) ==
    LET t == big_div_pow10(big_mul(big_mul_pow10(n, 6), 2), decimals, FALSE)
        d == big_divmod(t.n, 2)
    IN IF d.r = 0 THEN {d.q}
       ELSE IF t.sticky THEN {big_add_small(d.q, 1)}
       ELSE {d.q, big_add_small(d.q, 1)}

Formatted == probe.op = "format_balance" /\ probe.status = "returned"

\* C21: format_balance gives the integer raw value divided by 10^decimals,
\* rounded to six decimal places, and gives back unchanged a raw value that
\* is not an integer
BalanceRoundedToSixPlaces ==
    Formatted =>
        LET raw == int_of_str(probe.balance)
        IN IF ~raw.ok THEN probe.result = probe.balance
           ELSE \E s \in NearestMillionths(raw.n, probe.decimals) :
                    probe.result = format_fixed6(raw.negative /\ raw.n # <<>>, s)

\* the parts of C21 the code keeps: the documented example, six places
\* after the point, and no exception for a text that is not an integer
BalanceExampleAndShape ==
    Formatted =>
        /\ (probe.balance = <<"1", "2", "3", "4", "5", "6", "7", "8", "9", "0">>
                /\ probe.decimals = 9) => probe.result = <<"1", ".", "2", "3", "4", "5", "6", "8">>
        /\ IF int_of_str(probe.balance).ok
           THEN /\ Len(probe.result) > 7
                /\ probe.result[Len(probe.result) - 6] = "."
                /\ \A i \in 1..6 : is_digit(probe.result[Len(probe.result) - 6 + i])
           ELSE probe.result = probe.balance

\* ---- C22
HtmlReturned ==
    probe.op = "render" /\ probe.status = "returned" /\ probe.fn = "markdown_to_html"

\* the tags markdown_to_html writes; the a tag is written in two parts
NAMES == {<<"b">>, <<"u">>, <<"i">>, <<"p", "r", "e">>, <<"c", "o", "d", "e">>}
EmittedTags ==
    {TAG(n) : n \in NAMES} \cup {END_TAG(n) : n \in NAMES \cup {<<"a">>}}
TagOpenings == EmittedTags \cup {A_HREF}
TagClosings == EmittedTags \cup {<<"\"", ">">>}
Entities == {escape_char(c) : c \in {"&", "<", ">", "\"", "'"}}
ends_with(text, i, pat) == i >= Len(pat) /\ starts_with(text, i - Len(pat) + 1, pat)
Occurrences(text, chars) == Cardinality({i \in 1..Len(text) : text[i] \in chars})

\* C22: when markdown_to_html reports ok, every "<" of the output opens and
\* every ">" closes a tag the formatter wrote, and every "<", ">", "&" (and
\* quote) of the input is in the output as its entity
InputCannotInjectMarkup ==
    (HtmlReturned /\ probe.ok) =>
        LET out == probe.result.chars
        IN /\ \A i \in 1..Len(out) :
                /\ out[i] = "<" => \E tag \in TagOpenings : starts_with(out, i, tag)
                /\ out[i] = ">" => \E tag \in TagClosings : ends_with(out, i, tag)
                /\ out[i] = "&" => \E e \in Entities : starts_with(out, i, e)
           /\ Occurrences(out, {"&"})
                = Occurrences(probe.text.chars, {"&", "<", ">", "\"", "'"})

\* C22 witness: a link whose url or label holds "<" and "&" was rendered
MarkupInsideLinkRendered ==
    /\ HtmlReturned /\ probe.ok
    /\ \E i \in 1..Len(probe.text.chars) : probe.text.chars[i] = "<"
    /\ \E i \in 1..Len(probe.result.chars) : starts_with(probe.result.chars, i, A_HREF)

\* ---- C23
PlainReturned ==
    probe.op = "render" /\ probe.status = "returned" /\ probe.fn = "markdown_to_plaintext"

\* C23: markdown_to_html never raises: when a step of it raises it returns
\* the plaintext conversion with ok false, the turn does not end in the
\* error reply, and markdown_to_plaintext never raises but gives back its
\* argument untouched
RenderNeverRaises ==
    /\ HtmlReturned =>
          /\ ~probe.raised
          /\ probe.turn_reply # ERROR_REPLY
          /\ probe.ok = ~raises_on(probe.text)
          /\ ~probe.ok => probe.result = probe.text
    /\ (PlainReturned /\ probe.calls = 1) =>
          /\ ~probe.raised
          /\ raises_on(probe.text) => probe.result = probe.text

\* C23 witness: markdown_to_html was handed None and returned
RenderFellBackToPlaintext ==
    HtmlReturned /\ probe.text = NoneValue /\ ~probe.ok /\ probe.result = NoneValue

\* ---- C24
\* C24: markdown_to_plaintext applied to its own result changes nothing
PlaintextIsIdempotent ==
    (PlainReturned /\ probe.calls = 2) => probe.result = probe.first

\* ---- C26
contains(text, pat) == \E i \in 1..Len(text) : starts_with(text, i, pat)
IsFencedBlock(text) ==
    /\ Len(text) >= 6
    /\ starts_with(text, 1, FENCE) /\ ends_with(text, Len(text), FENCE)
    /\ ~contains(SubSeq(text, 4, Len(text) - 3), FENCE)

\* C26: a text that is one fenced block becomes one pre element and the
\* inline-code rule makes no code tag out of it
FencedBlockHoldsNoCodeTag ==
    (HtmlReturned /\ probe.ok /\ IsFencedBlock(probe.text.chars)) =>
        LET out == probe.result.chars
            pre == TAG(<<"p", "r", "e">>)
        IN /\ starts_with(out, 1, pre)
           /\ ends_with(out, Len(out), END_TAG(<<"p", "r", "e">>))
           /\ ~contains(out, TAG(<<"c", "o", "d", "e">>))

\* ---- C25
\* the turn in its synchronous part took a tool call whose name no branch
\* of the if/elif chain matches
IsUnknownToolCall ==
    Running /\ frame.tool_call # NoToolCall /\ frame.tool_call.name \notin DISPATCH_NAMES
ArgumentsParse == frame.tool_call.arguments.json # "invalid"
ContentOrFixedString ==
    IF frame.assistant_message.content \in {None, ""}
    THEN "I couldn't process your request correctly."
    ELSE frame.assistant_message.content

\* what C25 says of the answer, for a frame that has left the dispatch
AnswerIsContentOrFixedString ==
    pc[frame.turn] # "ToolDispatch" =>
        /\ pc[frame.turn] \in {"Render", "Returned"}
        /\ frame.ai_response = ContentOrFixedString
        /\ pc[frame.turn] = "Returned" => frame.ret = markdown_to_html(ContentOrFixedString)

\* C25 as stated: a tool call with a name that has no dispatch branch runs
\* no adapter and no second LLM request, and the answer is the content of
\* the model or the fixed string, rendered
UnknownToolFallsBackToContent ==
    IsUnknownToolCall =>
        /\ frame.outcome.executed = "none" /\ frame.outcome.request = NoRequest
        /\ frame.llm_calls = 1 /\ frame.followup = NoLLMRequest
        /\ AnswerIsContentOrFixedString

\* C25 as the code has it: the same for a call whose arguments parse; with
\* arguments that are not JSON the turn ends in the error reply, still
\* without adapter and second request
UnknownToolWithParsedArguments ==
    IsUnknownToolCall =>
        /\ frame.outcome.executed = "none" /\ frame.outcome.request = NoRequest
        /\ frame.llm_calls = 1 /\ frame.followup = NoLLMRequest
        /\ IF ArgumentsParse THEN AnswerIsContentOrFixedString
           ELSE pc[frame.turn] = "Returned" => frame.ret = Reply(ERROR_REPLY, FALSE)

\* C25 witness: an unknown tool call without content was answered with the
\* fixed string
UnknownToolAnsweredWithFixedString ==
    /\ IsUnknownToolCall /\ ArgumentsParse
    /\ frame.assistant_message.content = None
    /\ pc[frame.turn] = "Returned"
    /\ frame.ret = markdown_to_html(FALLBACK_REPLY)

\* ---- C27
\* C27: a call to a tool whose schema went out with the first request (sent
\* with tools) never takes the fallback for unknown names: it reaches its
\* adapter or its validation
AdvertisedToolsAreDispatched ==
    (/\ Running
     /\ request[frame.turn].tools
     /\ frame.tool_call # NoToolCall
     /\ frame.tool_call.name \in ADVERTISED_NAMES
     /\ frame.tool_call.arguments.json = "object"
     /\ pc[frame.turn] # "ToolDispatch")
        => frame.outcome.kind # "fallback"

\* ---- C28
\* C28: when a turn has finished and none is in its synchronous part, every
\* tool-call id of an assistant entry has a tool entry with that id later in
\* conversation_history
EveryToolCallIsAnswered ==
    (~Running /\ \E t \in Turns : pc[t] = "done") =>
        \A i \in Positions(conversation_history) :
            \A k \in Positions(conversation_history[i].tool_calls) :
                \E j \in Positions(conversation_history) :
                    /\ j > i
                    /\ conversation_history[j].role = "tool"
                    /\ conversation_history[j].tool_call_id = conversation_history[i].tool_calls[k]

\* ---- C29
\* the entries a turn appends after its first response stand together
Contiguous(h) ==
    \A i, k \in Positions(h) :
        (i < k /\ h[i].turn = h[k].turn /\ h[i].role # "user" /\ h[k].role # "user")
            => \A j \in i..k : h[j].turn = h[i].turn

\* C29: from the first LLM response of a turn to its return no other turn
\* takes a step, and the assistant and tool entries of one turn are
\* contiguous in conversation_history
TurnRunsAloneAfterFirstResponse ==
    [][/\ Running =>
             /\ frame'.turn \in {0, frame.turn}
             /\ started' = started
             /\ \A u \in Turns \ {frame.turn} : pc'[u] = pc[u]
             /\ \A i \in (Len(conversation_history) + 1)..Len(conversation_history') :
                    conversation_history'[i].turn = frame.turn
       /\ Contiguous(conversation_history')]_vars

\* C29 witness: a turn ran its tool call and follow-up to the end while
\* another turn was waiting for its first response
ToolTurnFinishedWhileOtherWaits ==
    \E t, u \in Turns :
        /\ t # u /\ pc[u] = "FirstCall" /\ frame.turn = t /\ pc[t] = "Returned"
        /\ EntriesOf(conversation_history, "tool", t) # {}
        /\ EntriesOf(conversation_history, "user", u) # {}
        /\ \E i \in EntriesOf(conversation_history, "assistant", t) :
               conversation_history[i].tool_calls = <<>>

\* ---- C30
\* C30: conversation_history that holds the user entry of a reset message
\* holds no entry of a turn whose message came before that message
ResetHistoryHoldsNoEarlierTurn ==
    \A i \in Positions(conversation_history) :
        (/\ conversation_history[i].role = "user"
         /\ conversation_history[i].content \in TextsWithResetKeyword)
            => \A j \in Positions(conversation_history) :
                   conversation_history[j].turn >= conversation_history[i].turn

\* ---- C31
\* C31: every invocation of get_response returns a pair whose text is a
\* string, never None, whatever the LLM responses were
ReturnedTextIsAString ==
    (Running /\ pc[frame.turn] = "Returned") =>
        /\ frame.ret # NoReply
        /\ frame.ret.text # None

\* ---- C32
\* the turn in its synchronous part got no first response: the request
\* timed out or failed
FirstCallFailed == Running /\ frame.assistant_message = NoMessage /\ frame.exc # None

\* conversation_history holds of turn t the user entry alone, as the first
\* statements of get_response left it
OnlyUserEntryOf(h, t, text) ==
    /\ EntriesOf(h, "assistant", t) = {} /\ EntriesOf(h, "tool", t) = {}
    /\ h # <<>> /\ h[Len(h)] = UserEntry(text, t)
    /\ Len(h) <= 10
    /\ text \in TextsWithResetKeyword => Len(h) = 1

\* C32: when the first LLM call of a turn times out or fails, the failure
\* and the return change nothing in conversation_history: of that turn it
\* holds the user entry alone, after truncation or reset
FailedFirstCallLeavesOnlyUserEntry ==
    [][\A t \in Turns :
          (\/ pc[t] = "FirstCall" /\ pc'[t] = "Except"
           \/ frame.turn = t /\ FirstCallFailed /\ pc[t] \in {"Except", "Returned"})
          => /\ conversation_history' = conversation_history
             /\ OnlyUserEntryOf(conversation_history', t, call[t].text)]_vars

\* C32 witness: a turn after others lost its first call and returned
FirstCallFailedAfterEarlierTurns ==
    /\ FirstCallFailed /\ pc[frame.turn] = "Returned"
    /\ frame.turn > 1
    /\ Len(conversation_history) > 1
    /\ OnlyUserEntryOf(conversation_history, frame.turn, call[frame.turn].text)

\* ---- C33 ------------------------------------------------------------
\* For every text message the placeholder is sent before get_response is
\* invoked, a delete of the placeholder is attempted before a final reply
\* is sent, and at most one final reply is delivered: the answer or one
\* apology, never both.
IsFinalReply(e) == e \in {"answer", "apology"}
IsDeleteAttempt(e) == e \in {"delete", "delete_failed"}
PlaceholderDeleteThenOneReply ==
    scenario = "message" =>
        LET e == news.events IN
        /\ \A i \in 1..Len(e) :
              e[i] = "get_response" => \E j \in 1..(i - 1) : e[j] = "placeholder"
        /\ \A i \in 1..Len(e) :
              IsFinalReply(e[i]) => \E j \in 1..(i - 1) : IsDeleteAttempt(e[j])
        /\ Cardinality({i \in 1..Len(e) : IsFinalReply(e[i])}) <= 1

\* the parts of C33 that hold: the order of placeholder, invocation, delete
\* attempt and reply, and at most one delivered answer and one delivered apology
PlaceholderDeleteThenReplies ==
    scenario = "message" =>
        LET e == news.events IN
        /\ \A i \in 1..Len(e) :
              e[i] = "get_response" => \E j \in 1..(i - 1) : e[j] = "placeholder"
        /\ \A i \in 1..Len(e) :
              IsFinalReply(e[i]) => \E j \in 1..(i - 1) : IsDeleteAttempt(e[j])
        /\ \A i, j \in 1..Len(e) : (IsFinalReply(e[i]) /\ e[i] = e[j]) => i = j

\* ---- C34 ------------------------------------------------------------
\* The user identifier that reaches the create_account and get_account
\* adapters is the one the transport supplied to get_response, whatever
\* user_id the tool-call arguments hold.
AccountAdapterRan ==
    /\ Running
    /\ frame.outcome.executed \in {"create_account", "get_account"}
    /\ frame.outcome.request # NoRequest
ModelSuppliedUserId ==
    /\ frame.tool_call.arguments.json = "object"
    /\ dict_get(frame.tool_call.arguments.obj, "user_id", None) = "#99"
AdapterUserIdIsTheTransports ==
    AccountAdapterRan => frame.outcome.request.user_id = call[frame.turn].user_id

CreateAccountIgnoredModelUserId ==
    /\ AccountAdapterRan /\ ModelSuppliedUserId
    /\ frame.outcome.executed = "create_account"
    /\ call[frame.turn].user_id = 1
    /\ frame.outcome.request.user_id = 1
GetAccountIgnoredModelUserId ==
    /\ AccountAdapterRan /\ ModelSuppliedUserId
    /\ frame.outcome.executed = "get_account"
    /\ call[frame.turn].user_id = 1
    /\ frame.outcome.request.user_id = 1

\* ---- C35 ------------------------------------------------------------
\* When every LLM call and every tool HTTP call eventually returns, fails
\* or times out, every get_response invocation eventually returns with
\* exactly one terminal outcome (rendered answer, short-circuit answer,
\* TimeoutFailure or GenericFailure) and returns once, also when turns overlap.
TerminalOutcomes ==
    {o \in {"RenderedAnswer", "ShortCircuitAnswer", "TimeoutFailure", "GenericFailure"} :
        CASE o = "TimeoutFailure" ->
               frame.exc # None /\ frame.ret = Reply(TIMEOUT_REPLY, FALSE)
          [] o = "GenericFailure" ->
               frame.exc # None /\ frame.ret = Reply(ERROR_REPLY, FALSE)
          [] o = "ShortCircuitAnswer" ->
               frame.exc = None /\ frame.outcome.short
               /\ frame.ret = Reply(frame.ai_response, FALSE)
          [] o = "RenderedAnswer" ->
               frame.exc = None /\ ~frame.outcome.short
               /\ frame.ret = markdown_to_html(frame.ai_response)}
ReturnedWithOneOutcome(t) ==
    /\ pc[t] = "Returned" /\ frame.turn = t
    /\ Cardinality(TerminalOutcomes) = 1
EveryInvocationReachesOneOutcome ==
    /\ \A t \in Turns : (pc[t] = "FirstCall") ~> ReturnedWithOneOutcome(t)
    /\ [][\A t \in Turns :
            /\ pc[t] = "Returned" => pc'[t] \in {"Returned", "done"}
            /\ pc[t] = "done" => pc'[t] = "done"
            /\ pc'[t] = "done" => pc[t] \in {"Returned", "done"}]_vars

ShortCircuitReturnedWhileOtherWaits ==
    /\ scenario = "termination"
    /\ \E t \in Turns : ReturnedWithOneOutcome(t) /\ t > 1 /\ pc[1] = "FirstCall"
    /\ TerminalOutcomes = {"ShortCircuitAnswer"}

====
